---------------------------- MODULE Spec2Model ----------------------------
(***************************************************************************)
(* Model of the trading-analysis core of ccode-nifty:                      *)
(*   src/src/trend_detector.py       SimpleTrendDetector                   *)
(*   src/src/support_resistance.py   SimpleSRDetector                      *)
(*                                                                         *)
(* Prices are integers.  A Python/numpy float is modelled by an exact      *)
(* fraction [n, d] in lowest terms with d > 0; the three IEEE specials a   *)
(* division by zero produces are the fractions with d = 0:                 *)
(*   [n |-> 0, d |-> 0] NaN,  [n |-> 1, d |-> 0] +inf,  [n |-> -1, ..] -inf *)
(* The mean of a cluster (np.mean) is rounded as floating-point sums and   *)
(* quotients are, to a significand of MANTISSA_BITS bits.                  *)
(***************************************************************************)
EXTENDS Integers, Sequences, FiniteSets, TLC

(***************************************************************************)
(* Float arithmetic                                                        *)
(***************************************************************************)
Abs(x) == IF x < 0 THEN -x ELSE x

Sign(x) == IF x < 0 THEN -1 ELSE IF x > 0 THEN 1 ELSE 0

RECURSIVE Gcd(_, _)
Gcd(a, b) == IF b = 0 THEN Abs(a) ELSE Gcd(b, a % Abs(b))

\* the fraction n/d (d # 0) in lowest terms with a positive denominator
Norm(n, d) ==
    LET g == Gcd(n, d)
        s == IF d < 0 THEN -1 ELSE 1
    IN  [n |-> s * (n \div g), d |-> s * (d \div g)]

F(i) == [n |-> i, d |-> 1]

NaN == [n |-> 0, d |-> 0]

Inf(s) == [n |-> s, d |-> 0]

IsNaN(a) == a.d = 0 /\ a.n = 0

IsFinite(a) == a.d > 0

\* a/b < c/d for b, d > 0, by continued-fraction expansion (no products)
RECURSIVE FracLess(_, _, _, _)
FracLess(a, b, c, d) ==
    LET q1 == a \div b
        q2 == c \div d
        r1 == a % b
        r2 == c % d
    IN  IF q1 # q2 THEN q1 < q2
        ELSE IF r2 = 0 THEN FALSE
        ELSE IF r1 = 0 THEN TRUE
        ELSE FracLess(d, r2, b, r1)

\* IEEE comparison: every comparison with NaN is false
FLess(a, b) ==
    IF IsNaN(a) \/ IsNaN(b) THEN FALSE
    ELSE IF a.d = 0 THEN a.n = -1 /\ b # a
    ELSE IF b.d = 0 THEN b.n = 1
    ELSE FracLess(a.n, a.d, b.n, b.d)

FLeq(a, b) == ~IsNaN(a) /\ ~IsNaN(b) /\ ~FLess(b, a)

FSub(a, b) ==
    IF a.d = 0 \/ b.d = 0
    THEN IF IsNaN(a) \/ IsNaN(b) \/ (a.d = 0 /\ b.d = 0 /\ a.n = b.n) THEN NaN
         ELSE IF a.d = 0 THEN a ELSE Inf(-b.n)
    ELSE LET g == Gcd(a.d, b.d)
         IN  Norm(a.n * (b.d \div g) - b.n * (a.d \div g), (a.d \div g) * b.d)

FAdd(a, b) == FSub(a, [n |-> -b.n, d |-> b.d])

FMul(a, b) ==
    IF a.d = 0 \/ b.d = 0
    THEN IF IsNaN(a) \/ IsNaN(b) \/ a.n = 0 \/ b.n = 0 THEN NaN
         ELSE Inf(Sign(a.n) * Sign(b.n))
    ELSE LET g1 == Gcd(a.n, b.d)
             g2 == Gcd(b.n, a.d)
         IN  IF a.n = 0 \/ b.n = 0 THEN F(0)
             ELSE Norm((a.n \div g1) * (b.n \div g2), (a.d \div g2) * (b.d \div g1))

\* numpy float64 division: x/0 is +-inf, 0/0 is NaN, no exception
FDiv(a, b) ==
    IF a.d = 0 \/ b.d = 0
    THEN IF IsNaN(a) \/ IsNaN(b) \/ (a.d = 0 /\ b.d = 0) THEN NaN
         ELSE IF a.d = 0 THEN Inf(a.n * (IF b.n < 0 THEN -1 ELSE 1))
         ELSE F(0)
    ELSE IF b.n = 0 THEN Inf(Sign(a.n))
    ELSE FMul(a, [n |-> Sign(b.n) * b.d, d |-> Abs(b.n)])

FAbs(a) == [n |-> Abs(a.n), d |-> a.d]

\* the width of the significand floats are rounded to: float64 carries 53
\* bits; the model carries fewer, so that every intermediate value fits
\* TLC's integers, and rounds the same way (to nearest, ties to even)
MANTISSA_BITS == 11

RECURSIVE Pow2(_)
Pow2(k) == IF k <= 0 THEN 1 ELSE 2 * Pow2(k - 1)

\* floor(log2(m / d)) for m, d > 0
RECURSIVE FloorLog2(_, _)
FloorLog2(m, d) ==
    IF m >= 2 * d THEN FloorLog2(m, 2 * d) + 1
    ELSE IF m < d THEN FloorLog2(2 * m, d) - 1
    ELSE 0

\* the float nearest to the finite fraction a
RoundFloat(a) ==
    IF a.d = 0 \/ a.n = 0 THEN a
    ELSE IF a.d = 1 /\ Abs(a.n) < Pow2(MANTISSA_BITS) THEN a
    ELSE LET m   == Abs(a.n)
             sh  == MANTISSA_BITS - 1 - FloorLog2(m, a.d)
             num == IF sh >= 0 THEN m * Pow2(sh) ELSE m
             den == IF sh >= 0 THEN a.d ELSE a.d * Pow2(-sh)
             q   == num \div den
             r   == num % den
             sig == IF 2 * r < den THEN q
                    ELSE IF 2 * r > den THEN q + 1
                    ELSE IF q % 2 = 0 THEN q ELSE q + 1
         IN  IF sh >= 0 THEN Norm(Sign(a.n) * sig, Pow2(sh))
             ELSE F(Sign(a.n) * sig * Pow2(-sh))

\* mutant: the final min(strength, 100.0) left out
PyMinNoClamp(a, b) == a

\* Python's min(a, b): b if b < a, otherwise a (so min(nan, x) is nan)
PyMin(a, b) == IF FLess(b, a) THEN b ELSE a


(***************************************************************************)
(* State                                                                   *)
(***************************************************************************)
VARIABLES
    df,         \* the DataFrame the caller passes: a sequence of rows
    dfCols,     \* the column names of that DataFrame object
    detector,   \* the fields of the SimpleSRDetector object
    call,       \* the last call made: its operation, its arguments, and the
                \* DataFrame and detector as they were when it started
    trend,      \* what the last calculate_simple_trend call returned
    sr,         \* what the last detect_sr_levels call returned
    before,     \* call, trend and sr as they were before the last call
    callsLeft,  \* how many calls of each kind the caller still makes
    args,       \* what the caller passes to the detector's helper methods
    ret,        \* what the helper-method calls made so far returned, in order
    threads,    \* the calls running on threads of their own: each one's
                \* DataFrame, position and local variables
    dashboard,  \* enhanced_dashboard: the update_running flag, the POST
                \* requests being handled and the updater threads started
    db          \* dhanhq.price_data: its rows, and the rows as they were when
                \* the last update_missing_trends call started

vars ==
    <<df, dfCols, detector, call, trend, sr, before, callsLeft, args, ret, threads,
      dashboard, db>>

\* columns of a price DataFrame (open and volume are never read by the core)
BaseCols == {"datetime", "open", "high", "low", "close", "volume"}

NoCall ==
    [op |-> "none", df0 |-> <<>>, cols0 |-> {}, det0 |-> [x \in {} |-> 0],
     max_support |-> 0, max_resistance |-> 0, outcome |-> "none"]

NoTrend == [label |-> "none", strength |-> F(0)]

NoSR == [support |-> <<>>, resistance |-> <<>>]

NoBefore == [call |-> NoCall, trend |-> NoTrend, sr |-> NoSR]

\* the dashboard process after start-up, before any request
NoDashboard == [update_running |-> FALSE, requests |-> <<>>, updaters |-> <<>>]

\* an empty table on which update_missing_trends has not been called
NoDb == [table |-> <<>>, table0 |-> <<>>,
         call |-> [security_id |-> "", interval_minutes |-> 0, outcome |-> "none",
                  updated_count |-> 0]]

NoArgs ==
    [levels |-> <<>>, atr |-> F(0), min_price |-> F(0), max_price |-> F(0),
     level_price |-> 0, limits |-> {}, rows |-> <<>>]

(***************************************************************************)
(* SimpleTrendDetector.calculate_simple_trend                              *)
(***************************************************************************)
MIN_TREND_BARS == 20

\* mutant: the length test off by one (19 bars are analysed)
TrendMinBarsOffByOne == MIN_TREND_BARS - 1

\* line 23: the number of bars below which calculate_simple_trend gives up
TrendMinBars == MIN_TREND_BARS

SPAN_FAST == 3

SPAN_MID == 8

SPAN_SLOW == 20

RECENT_BARS == 5

CloseOf(d) == [i \in 1..Len(d) |-> d[i].close]

\* pandas Series.ewm(span, adjust=False).mean() at row t:
\*   y[1] = x[1],  y[t] = a*x[t] + (1-a)*y[t-1],  a = 2/(span+1)
RECURSIVE EwmMean(_, _, _)
EwmMean(x, span, t) ==
    IF t = 1 THEN F(x[1])
    ELSE LET prev == EwmMean(x, span, t - 1)
         IN  Norm(2 * x[t] * prev.d + (span - 1) * prev.n, (span + 1) * prev.d)

\* mutant: the change is taken over the last six closes
PriceChangePctSixCloses(x) ==
    LET first == x[Len(x) - RECENT_BARS]
        last  == x[Len(x)]
    IN  FMul(FDiv(F(last - first), F(first)), F(100))

\* recent_prices = df['close'].tail(5); percent change first -> last of it
PriceChangePct(x) ==
    LET first == x[Len(x) - RECENT_BARS + 1]
        last  == x[Len(x)]
    IN  FMul(FDiv(F(last - first), F(first)), F(100))

\* mutant: the weak rules tested before the strong ones
TrendDecisionWeakFirst(close, ema_3, ema_8, ema_20, price_change_pct) ==
    IF FLess(close, ema_8) /\ FLess(close, ema_20)
    THEN [label |-> "DOWNTREND",
          strength |-> FMul(FMul(FAbs(FDiv(FSub(ema_20, close), ema_20)), F(100)),
                            Norm(7, 10))]
    ELSE IF FLess(ema_8, close) /\ FLess(ema_20, close)
    THEN [label |-> "UPTREND",
          strength |-> FMul(FMul(FDiv(FSub(close, ema_20), ema_20), F(100)),
                            Norm(7, 10))]
    ELSE [label |-> "SIDEWAYS",
          strength |-> FMul(FAbs(FDiv(FSub(close, ema_20), ema_20)), F(100))]

\* mutant: the two uptrend rules written with the comparisons of the
\* downtrend rules
TrendDecisionUpInverted(close, ema_3, ema_8, ema_20, price_change_pct) ==
    IF FLess(close, ema_3) /\ FLess(ema_3, ema_8) /\ FLess(ema_8, ema_20)
       /\ FLess(price_change_pct, F(-1))
    THEN [label |-> "DOWNTREND",
          strength |-> FMul(FAbs(FDiv(FSub(ema_20, close), ema_20)), F(100))]
    ELSE IF FLess(close, ema_3) /\ FLess(ema_3, ema_8) /\ FLess(ema_8, ema_20)
            /\ FLess(F(1), price_change_pct)
    THEN [label |-> "UPTREND",
          strength |-> FMul(FDiv(FSub(close, ema_20), ema_20), F(100))]
    ELSE IF FLess(close, ema_8) /\ FLess(close, ema_20)
    THEN [label |-> "DOWNTREND",
          strength |-> FMul(FMul(FAbs(FDiv(FSub(ema_20, close), ema_20)), F(100)),
                            Norm(7, 10))]
    ELSE [label |-> "SIDEWAYS",
          strength |-> FMul(FAbs(FDiv(FSub(close, ema_20), ema_20)), F(100))]

\* mutant: a fall of more than 1 percent over the last five closes gives
\* DOWNTREND wherever the close lies
TrendDecisionMomentumFirst(close, ema_3, ema_8, ema_20, price_change_pct) ==
    IF FLess(price_change_pct, F(-1))
    THEN [label |-> "DOWNTREND",
          strength |-> FMul(FAbs(FDiv(FSub(ema_20, close), ema_20)), F(100))]
    ELSE IF FLess(ema_3, close) /\ FLess(ema_8, ema_3) /\ FLess(ema_20, ema_8)
            /\ FLess(F(1), price_change_pct)
    THEN [label |-> "UPTREND",
          strength |-> FMul(FDiv(FSub(close, ema_20), ema_20), F(100))]
    ELSE IF FLess(close, ema_8) /\ FLess(close, ema_20)
    THEN [label |-> "DOWNTREND",
          strength |-> FMul(FMul(FAbs(FDiv(FSub(ema_20, close), ema_20)), F(100)),
                            Norm(7, 10))]
    ELSE IF FLess(ema_8, close) /\ FLess(ema_20, close)
    THEN [label |-> "UPTREND",
          strength |-> FMul(FMul(FDiv(FSub(close, ema_20), ema_20), F(100)),
                            Norm(7, 10))]
    ELSE [label |-> "SIDEWAYS",
          strength |-> FMul(FAbs(FDiv(FSub(close, ema_20), ema_20)), F(100))]

\* lines 43-62: the if/elif chain, before the final min()
TrendDecision(close, ema_3, ema_8, ema_20, price_change_pct) ==
    IF FLess(close, ema_3) /\ FLess(ema_3, ema_8) /\ FLess(ema_8, ema_20)
       /\ FLess(price_change_pct, F(-1))
    THEN [label |-> "DOWNTREND",
          strength |-> FMul(FAbs(FDiv(FSub(ema_20, close), ema_20)), F(100))]
    ELSE IF FLess(ema_3, close) /\ FLess(ema_8, ema_3) /\ FLess(ema_20, ema_8)
            /\ FLess(F(1), price_change_pct)
    THEN [label |-> "UPTREND",
          strength |-> FMul(FDiv(FSub(close, ema_20), ema_20), F(100))]
    ELSE IF FLess(close, ema_8) /\ FLess(close, ema_20)
    THEN [label |-> "DOWNTREND",
          strength |-> FMul(FMul(FAbs(FDiv(FSub(ema_20, close), ema_20)), F(100)),
                            Norm(7, 10))]
    ELSE IF FLess(ema_8, close) /\ FLess(ema_20, close)
    THEN [label |-> "UPTREND",
          strength |-> FMul(FMul(FDiv(FSub(close, ema_20), ema_20), F(100)),
                            Norm(7, 10))]
    ELSE [label |-> "SIDEWAYS",
          strength |-> FMul(FAbs(FDiv(FSub(close, ema_20), ema_20)), F(100))]

\* the columns calculate_simple_trend assigns on the caller's DataFrame
EmaCols == {"ema_3", "ema_8", "ema_20"}

TrendColsAfter(d, cols) ==
    IF Len(d) < TrendMinBars THEN cols ELSE cols \cup EmaCols

\* mutant: a DataFrame that already carries the ema columns is taken as
\* analysed before and is not analysed again
TrendOfSkipProcessed(d) ==
    IF Len(d) < TrendMinBars \/ EmaCols \subseteq dfCols
    THEN [label |-> "NEUTRAL", strength |-> F(0)]
    ELSE LET x   == CloseOf(d)
             L   == Len(d)
             dec == TrendDecision(F(x[L]), EwmMean(x, SPAN_FAST, L),
                                  EwmMean(x, SPAN_MID, L), EwmMean(x, SPAN_SLOW, L),
                                  PriceChangePct(x))
         IN  [label |-> dec.label, strength |-> PyMin(dec.strength, F(100))]

\* the (trend, strength) pair calculate_simple_trend returns for DataFrame d
TrendOf(d) ==
    IF Len(d) < TrendMinBars THEN [label |-> "NEUTRAL", strength |-> F(0)]
    ELSE LET x   == CloseOf(d)
             L   == Len(d)
             dec == TrendDecision(F(x[L]), EwmMean(x, SPAN_FAST, L),
                                  EwmMean(x, SPAN_MID, L), EwmMean(x, SPAN_SLOW, L),
                                  PriceChangePct(x))
         IN  [label |-> dec.label, strength |-> PyMin(dec.strength, F(100))]

\* one call of calculate_simple_trend(df): never raises, never looks at datetime
CalculateSimpleTrend ==
    /\ callsLeft.trend > 0
    /\ callsLeft' = [callsLeft EXCEPT !.trend = @ - 1]
    /\ before' = [call |-> call, trend |-> trend, sr |-> sr]
    /\ trend' = TrendOf(df)
    /\ dfCols' = TrendColsAfter(df, dfCols)
    /\ call' = [op |-> "trend", df0 |-> df, cols0 |-> dfCols, det0 |-> detector,
                max_support |-> 0, max_resistance |-> 0, outcome |-> "returned"]
    /\ UNCHANGED <<df, detector, sr, args, ret, threads,
                 dashboard, db>>

(***************************************************************************)
(* SimpleSRDetector                                                        *)
(***************************************************************************)
MIN_SR_BARS == 50

\* values of cluster_threshold_atr a detector is built with
Multipliers == {F(0), Norm(1, 2), F(1), F(2)}

\* mutant: the length test off by one (49 bars are analysed)
SRMinBarsOffByOne == MIN_SR_BARS - 1

\* line 203: the number of bars below which detect_sr_levels gives up
SRMinBars == MIN_SR_BARS

ATR_PERIOD == 14

SWING_SIDE == 5

MaxI(a, b) == IF a > b THEN a ELSE b

MinI(a, b) == IF a < b THEN a ELSE b

\* mutant: the true range is the bar's own range, whatever the previous close
TrueRangeOwnBar(d, i) == d[i].high - d[i].low

\* true range of row i: the first row has no previous close, and
\* DataFrame.max(axis=1) skips the two NaN columns there
TrueRange(d, i) ==
    IF i = 1 THEN d[1].high - d[1].low
    ELSE MaxI(d[i].high - d[i].low,
              MaxI(Abs(d[i].high - d[i - 1].close), Abs(d[i].low - d[i - 1].close)))

RECURSIVE SumTrueRange(_, _, _)
SumTrueRange(d, from, to) ==
    IF from > to THEN 0 ELSE TrueRange(d, to) + SumTrueRange(d, from, to - 1)

\* calculate_atr(df).iloc[-1]: the rolling mean of the last `period` true
\* ranges, NaN while fewer than `period` rows exist
CalculateAtrLast(d, period) ==
    IF Len(d) < period THEN NaN
    ELSE Norm(SumTrueRange(d, Len(d) - period + 1, Len(d)), period)

\* df.tail(n) for n >= 0
DfTail(d, n) == IF n >= Len(d) THEN d ELSE SubSeq(d, Len(d) - n + 1, Len(d))

\* df.iloc[from-1:to]['high'].max() and ['low'].min(), rows from..to (1-based)
MaxHigh(d, from, to) ==
    CHOOSE m \in {d[i].high : i \in from..to} : \A i \in from..to : m >= d[i].high

MinLow(d, from, to) ==
    CHOOSE m \in {d[i].low : i \in from..to} : \A i \in from..to : m <= d[i].low

\* df['high'].std(): the sample standard deviation of the highs, NaN for
\* fewer than two rows; the square root is rounded down to thousandths
HighStd(d) ==
    IF Len(d) < 2 THEN NaN
    ELSE LET n   == Len(d)
             sum[i \in 0..n] == IF i = 0 THEN 0 ELSE sum[i - 1] + d[i].high
             sq[i \in 0..n]  == IF i = 0 THEN 0 ELSE sq[i - 1] + d[i].high * d[i].high
             var == Norm(n * sq[n] - sum[n] * sum[n], n * (n - 1))
             r   == CHOOSE x \in 0..(1000 * MaxHigh(d, 1, n)) :
                        /\ x * x * var.d <= 1000000 * var.n
                        /\ (x + 1) * (x + 1) * var.d > 1000000 * var.n
         IN  Norm(r, 1000)

\* lines 206-211: the volatility detect_sr_levels works with, and whether it
\* is the fallback
SrVolatility(d) ==
    LET atr == CalculateAtrLast(d, ATR_PERIOD)
    IN  IF IsNaN(atr) THEN [atr |-> HighStd(d), fallback |-> TRUE]
        ELSE [atr |-> atr, fallback |-> FALSE]

\* mutant: a high that equals the highest of its neighbours passes too
IsSwingHighOrTie(w, r) ==
    /\ w[r].high >= MaxHigh(w, r - SWING_SIDE, r - 1)
    /\ w[r].high >= MaxHigh(w, r + 1, r + SWING_SIDE)

\* row r (1-based) of the window is a swing high / low: strictly beyond the
\* 5 rows before it and the 5 rows after it
IsSwingHigh(w, r) ==
    /\ w[r].high > MaxHigh(w, r - SWING_SIDE, r - 1)
    /\ w[r].high > MaxHigh(w, r + 1, r + SWING_SIDE)

\* mutant: a low that equals the lowest of its neighbours passes too
IsSwingLowOrTie(w, r) ==
    /\ w[r].low <= MinLow(w, r - SWING_SIDE, r - 1)
    /\ w[r].low <= MinLow(w, r + 1, r + SWING_SIDE)

IsSwingLow(w, r) ==
    /\ w[r].low < MinLow(w, r - SWING_SIDE, r - 1)
    /\ w[r].low < MinLow(w, r + 1, r + SWING_SIDE)

\* the loop of find_swing_points, for i = r - 1 in range(5, len - 5): the
\* rows that pass the test, in ascending order of i
SwingRows(w) == [k \in 1..MaxI(0, Len(w) - 2 * SWING_SIDE) |-> k + SWING_SIDE]

SwingHighs(w) ==
    LET Test(r) == IsSwingHigh(w, r)
        rows    == SelectSeq(SwingRows(w), Test)
    IN  [k \in 1..Len(rows) |->
            [index |-> rows[k] - 1, price |-> w[rows[k]].high, date |-> w[rows[k]].datetime]]

SwingLows(w) ==
    LET Test(r) == IsSwingLow(w, r)
        rows    == SelectSeq(SwingRows(w), Test)
    IN  [k \in 1..Len(rows) |->
            [index |-> rows[k] - 1, price |-> w[rows[k]].low, date |-> w[rows[k]].datetime]]

\* mutant: a series shorter than lookback_bars is searched as a whole
FindSwingPointsClamped(d, lookback_bars) ==
    LET w == DfTail(d, lookback_bars)
    IN  [highs |-> SwingHighs(w), lows |-> SwingLows(w)]

FindSwingPoints(d, lookback_bars) ==
    IF Len(d) < lookback_bars THEN [highs |-> <<>>, lows |-> <<>>]
    ELSE LET w == DfTail(d, lookback_bars)
         IN  [highs |-> SwingHighs(w), lows |-> SwingLows(w)]

\* one call of find_swing_points(df)
FindSwingPointsCall ==
    /\ callsLeft.method > 0
    /\ callsLeft' = [callsLeft EXCEPT !.method = @ - 1]
    /\ ret' = Append(ret, [op |-> "find_swing_points", det |-> detector,
                           out |-> FindSwingPoints(df, detector.lookback_bars)])
    /\ UNCHANGED <<df, dfCols, detector, call, trend, sr, before, args, threads,
                 dashboard, db>>

\* int(x) of a float: truncation towards zero
TruncInt(a) == Sign(a.n) * (Abs(a.n) \div a.d)

RoundIncrement(max_price) ==
    IF FLess(F(10000), max_price) THEN 500
    ELSE IF FLess(F(1000), max_price) THEN 50
    ELSE IF FLess(F(100), max_price) THEN 5
    ELSE 1

\* mutant: every multiple of the increment is kept, not every tenth
RoundScanEveryIncrement(start, step, lo, hi) ==
    LET steps == IF FLeq(F(start), hi)
                 THEN TruncInt(FDiv(FSub(hi, F(start)), F(step))) + 1
                 ELSE 0
        Keep(current) == FLeq(lo, F(current)) /\ FLeq(F(current), hi)
    IN  SelectSeq([k \in 1..steps |-> start + (k - 1) * step], Keep)

\* the while loop of find_round_numbers: current runs over start,
\* start + increment, ... while current <= max_price; the values kept are
\* those in [min_price, max_price] that are multiples of 10 * increment
RoundScan(start, step, lo, hi) ==
    LET steps == IF FLeq(F(start), hi)
                 THEN TruncInt(FDiv(FSub(hi, F(start)), F(step))) + 1
                 ELSE 0
        Keep(current) == /\ FLeq(lo, F(current)) /\ FLeq(F(current), hi)
                         /\ current % (step * 10) = 0
    IN  SelectSeq([k \in 1..steps |-> start + (k - 1) * step], Keep)

FindRoundNumbers(include_round_numbers, min_price, max_price) ==
    IF ~include_round_numbers THEN <<>>
    ELSE LET increment == RoundIncrement(max_price)
             start == TruncInt(FDiv(min_price, F(increment))) * increment
         IN  RoundScan(start, increment, min_price, max_price)

\* one call of find_round_numbers((min_price, max_price))
FindRoundNumbersCall ==
    /\ callsLeft.method > 0
    /\ callsLeft' = [callsLeft EXCEPT !.method = @ - 1]
    /\ ret' = Append(ret, [op |-> "find_round_numbers", det |-> detector,
                           out |-> FindRoundNumbers(detector.include_round_numbers,
                                                    args.min_price, args.max_price)])
    /\ UNCHANGED <<df, dfCols, detector, call, trend, sr, before, args, threads,
                 dashboard, db>>

\* Python's stable sort on items carrying a two-part key (k1, k2):
\* x goes before the first element whose key is greater than x's
KeyLess(a, b) == IF a.k1 = b.k1 THEN FLess(a.k2, b.k2) ELSE FLess(a.k1, b.k1)

RECURSIVE InsertByKey(_, _)
InsertByKey(sorted, x) ==
    IF sorted = <<>> THEN <<x>>
    ELSE IF KeyLess(x, sorted[Len(sorted)])
         THEN InsertByKey(SubSeq(sorted, 1, Len(sorted) - 1), x) \o <<sorted[Len(sorted)]>>
         ELSE sorted \o <<x>>

RECURSIVE StableSort(_)
StableSort(items) ==
    IF items = <<>> THEN <<>>
    ELSE InsertByKey(StableSort(SubSeq(items, 1, Len(items) - 1)), items[Len(items)])

\* the sum np.mean forms: the members added one after the other, each
\* partial sum rounded
RECURSIVE FloatSum(_)
FloatSum(c) ==
    IF Len(c) = 1 THEN RoundFloat(F(c[1].price))
    ELSE RoundFloat(FAdd(FloatSum(SubSeq(c, 1, Len(c) - 1)), F(c[Len(c)].price)))

\* np.mean of the members' prices: the rounded sum divided by the count,
\* rounded again
MeanPrice(c) == RoundFloat(FDiv(FloatSum(c), F(Len(c))))

MinDate(c) == CHOOSE t \in {c[i].date : i \in 1..Len(c)} :
                  \A i \in 1..Len(c) : t <= c[i].date

MaxDate(c) == CHOOSE t \in {c[i].date : i \in 1..Len(c)} :
                  \A i \in 1..Len(c) : t >= c[i].date

MergeCluster(c) ==
    [price |-> MeanPrice(c), touches |-> Len(c),
     first_seen |-> MinDate(c), last_seen |-> MaxDate(c)]

\* mutant: a level joins the cluster when it is at least the threshold away
RECURSIVE ClusterScanFarJoins(_, _, _, _)
ClusterScanFarJoins(sorted, k, current, threshold) ==
    IF k > Len(sorted) THEN <<MergeCluster(current)>>
    ELSE IF FLeq(threshold, FAbs(FSub(F(sorted[k].price), MeanPrice(current))))
         THEN ClusterScanFarJoins(sorted, k + 1, Append(current, sorted[k]), threshold)
         ELSE <<MergeCluster(current)>>
              \o ClusterScanFarJoins(sorted, k + 1, <<sorted[k]>>, threshold)

\* mutant: a level is compared with the last member of the cluster, not
\* with the mean of its members
RECURSIVE ClusterScanLastMember(_, _, _, _)
ClusterScanLastMember(sorted, k, current, threshold) ==
    IF k > Len(sorted) THEN <<MergeCluster(current)>>
    ELSE IF FLeq(FAbs(FSub(F(sorted[k].price), F(current[Len(current)].price))), threshold)
         THEN ClusterScanLastMember(sorted, k + 1, Append(current, sorted[k]), threshold)
         ELSE <<MergeCluster(current)>>
              \o ClusterScanLastMember(sorted, k + 1, <<sorted[k]>>, threshold)

\* the for loop of cluster_levels over sorted_levels[k..], with the cluster
\* being built in `current`
RECURSIVE ClusterScan(_, _, _, _)
ClusterScan(sorted, k, current, threshold) ==
    IF k > Len(sorted) THEN <<MergeCluster(current)>>
    ELSE IF FLeq(FAbs(FSub(F(sorted[k].price), MeanPrice(current))), threshold)
         THEN ClusterScan(sorted, k + 1, Append(current, sorted[k]), threshold)
         ELSE <<MergeCluster(current)>>
              \o ClusterScan(sorted, k + 1, <<sorted[k]>>, threshold)

ClusterLevels(levels, atr, cluster_threshold_atr) ==
    IF levels = <<>> THEN <<>>
    ELSE LET keyed  == [i \in 1..Len(levels) |->
                           [k1 |-> F(levels[i].price), k2 |-> F(0), v |-> levels[i]]]
             ks     == StableSort(keyed)
             sorted == [i \in 1..Len(ks) |-> ks[i].v]
         IN  ClusterScan(sorted, 2, <<sorted[1]>>, FMul(atr, cluster_threshold_atr))

\* one call of cluster_levels(levels, atr) on a detector built with one of the
\* multipliers
ClusterLevelsCall ==
    \E m \in Multipliers :
        /\ callsLeft.method > 0
        /\ callsLeft' = [callsLeft EXCEPT !.method = @ - 1]
        /\ detector' = [detector EXCEPT !.cluster_threshold_atr = m]
        /\ ret' = Append(ret, [op |-> "cluster_levels", det |-> detector',
                               out |-> ClusterLevels(args.levels, args.atr, m)])
        /\ UNCHANGED <<df, dfCols, call, trend, sr, before, args, threads,
                     dashboard, db>>

\* mutant: only the highs are counted as touches
CountTouchesHighsOnly(d, level_price, atr, cluster_threshold_atr) ==
    LET threshold == FMul(atr, cluster_threshold_atr)
        lo == FSub(F(level_price), threshold)
        hi == FAdd(F(level_price), threshold)
    IN  Cardinality({i \in 1..Len(d) : FLeq(lo, F(d[i].high)) /\ FLeq(F(d[i].high), hi)})

\* mutant: a bar counts once, when its high or its low lies in the band
CountTouchesOncePerBar(d, level_price, atr, cluster_threshold_atr) ==
    LET threshold == FMul(atr, cluster_threshold_atr)
        lo == FSub(F(level_price), threshold)
        hi == FAdd(F(level_price), threshold)
    IN  Cardinality({i \in 1..Len(d) :
                        \/ FLeq(lo, F(d[i].high)) /\ FLeq(F(d[i].high), hi)
                        \/ FLeq(lo, F(d[i].low)) /\ FLeq(F(d[i].low), hi)})

\* high_touches + low_touches: the rows whose high lies in
\* [level_price - threshold, level_price + threshold] plus the rows whose
\* low does
CountTouches(d, level_price, atr, cluster_threshold_atr) ==
    LET threshold == FMul(atr, cluster_threshold_atr)
        lo == FSub(F(level_price), threshold)
        hi == FAdd(F(level_price), threshold)
    IN  Cardinality({i \in 1..Len(d) : FLeq(lo, F(d[i].high)) /\ FLeq(F(d[i].high), hi)})
        + Cardinality({i \in 1..Len(d) : FLeq(lo, F(d[i].low)) /\ FLeq(F(d[i].low), hi)})

\* one call of count_touches(df, level_price, atr) on a detector built with
\* one of the multipliers
CountTouchesCall ==
    \E m \in Multipliers :
        /\ callsLeft.method > 0
        /\ callsLeft' = [callsLeft EXCEPT !.method = @ - 1]
        /\ detector' = [detector EXCEPT !.cluster_threshold_atr = m]
        /\ ret' = Append(ret, [op |-> "count_touches", det |-> detector',
                               out |-> CountTouches(df, args.level_price, args.atr, m)])
        /\ UNCHANGED <<df, dfCols, call, trend, sr, before, args, threads,
                     dashboard, db>>

SwingLevel(c, type) ==
    [price |-> c.price, type |-> type, touches |-> c.touches,
     first_seen |-> c.first_seen, last_seen |-> c.last_seen, is_round_number |-> FALSE]

\* mutant: round numbers are added whatever their touch count
RoundLevelsUnfiltered(d, round_price, touches, min_touches, current_price) ==
    <<[price |-> F(round_price),
       type |-> IF round_price > current_price THEN "resistance" ELSE "support",
       touches |-> touches,
       first_seen |-> d[1].index, last_seen |-> d[Len(d)].index,
       is_round_number |-> TRUE]>>

\* lines 257-273: the level a round number becomes, or nothing when it has
\* too few touches
RoundLevels(d, round_price, touches, min_touches, current_price) ==
    IF touches >= min_touches
    THEN <<[price |-> F(round_price),
            type |-> IF round_price > current_price THEN "resistance" ELSE "support",
            touches |-> touches,
            first_seen |-> d[1].index, last_seen |-> d[Len(d)].index,
            is_round_number |-> TRUE]>>
    ELSE <<>>

RECURSIVE RoundLevelsFrom(_, _, _, _, _, _)
RoundLevelsFrom(d, rounds, k, atr, det, current_price) ==
    IF k > Len(rounds) THEN <<>>
    ELSE RoundLevels(d, rounds[k],
                     CountTouches(d, rounds[k], atr, det.cluster_threshold_atr),
                     det.min_touches, current_price)
         \o RoundLevelsFrom(d, rounds, k + 1, atr, det, current_price)

\* mutant: swing clusters are filed by their price alone, whichever kind of
\* swing they were built from
SRCandidatesByPriceAlone(d, det) ==
    LET atr           == SrVolatility(d).atr
        current_price == d[Len(d)].close
        swings        == FindSwingPoints(d, det.lookback_bars)
        round_numbers ==
            IF det.include_round_numbers
            THEN FindRoundNumbers(det.include_round_numbers,
                                  FMul(F(MinLow(d, 1, Len(d))), Norm(95, 100)),
                                  FMul(F(MaxHigh(d, 1, Len(d))), Norm(105, 100)))
            ELSE <<>>
        IsRes(c) == FLess(F(current_price), c.price) /\ c.touches >= det.min_touches
        IsSup(c) == FLess(c.price, F(current_price)) /\ c.touches >= det.min_touches
        all   == ClusterLevels(swings.highs, atr, det.cluster_threshold_atr)
                 \o ClusterLevels(swings.lows, atr, det.cluster_threshold_atr)
        resC  == SelectSeq(all, IsRes)
        supC  == SelectSeq(all, IsSup)
        rl    == RoundLevelsFrom(d, round_numbers, 1, atr, det, current_price)
        RoundRes(l) == l.type = "resistance"
        RoundSup(l) == l.type = "support"
    IN  [resistance |-> [i \in 1..Len(resC) |-> SwingLevel(resC[i], "resistance")]
                        \o SelectSeq(rl, RoundRes),
         support    |-> [i \in 1..Len(supC) |-> SwingLevel(supC[i], "support")]
                        \o SelectSeq(rl, RoundSup)]

\* lines 206-273: the two candidate lists, in the order the code appends them
\* (line 208's NaN fallback to the standard deviation of the highs is not
\* taken: with 50 or more integer-priced rows the 14-row mean exists)
SRCandidates(d, det) ==
    LET atr           == SrVolatility(d).atr
        current_price == d[Len(d)].close
        swings        == FindSwingPoints(d, det.lookback_bars)
        round_numbers ==
            IF det.include_round_numbers
            THEN FindRoundNumbers(det.include_round_numbers,
                                  FMul(F(MinLow(d, 1, Len(d))), Norm(95, 100)),
                                  FMul(F(MaxHigh(d, 1, Len(d))), Norm(105, 100)))
            ELSE <<>>
        IsRes(c) == FLess(F(current_price), c.price) /\ c.touches >= det.min_touches
        IsSup(c) == FLess(c.price, F(current_price)) /\ c.touches >= det.min_touches
        highC == SelectSeq(ClusterLevels(swings.highs, atr, det.cluster_threshold_atr), IsRes)
        lowC  == SelectSeq(ClusterLevels(swings.lows, atr, det.cluster_threshold_atr), IsSup)
        rl    == RoundLevelsFrom(d, round_numbers, 1, atr, det, current_price)
        RoundRes(l) == l.type = "resistance"
        RoundSup(l) == l.type = "support"
    IN  [resistance |-> [i \in 1..Len(highC) |-> SwingLevel(highC[i], "resistance")]
                        \o SelectSeq(rl, RoundRes),
         support    |-> [i \in 1..Len(lowC) |-> SwingLevel(lowC[i], "support")]
                        \o SelectSeq(rl, RoundSup)]

\* list.sort(key=lambda x: (x.price - current_price, -x.touches))
SortResistance(levels, current_price) ==
    LET ks == StableSort([i \in 1..Len(levels) |->
                  [k1 |-> FSub(levels[i].price, F(current_price)),
                   k2 |-> F(-levels[i].touches), v |-> levels[i]]])
    IN  [i \in 1..Len(ks) |-> ks[i].v]

\* mutant: support sorted by the resistance key (farthest level first)
SortSupportWrongSign(levels, current_price) ==
    LET ks == StableSort([i \in 1..Len(levels) |->
                  [k1 |-> FSub(levels[i].price, F(current_price)),
                   k2 |-> F(-levels[i].touches), v |-> levels[i]]])
    IN  [i \in 1..Len(ks) |-> ks[i].v]

\* list.sort(key=lambda x: (current_price - x.price, -x.touches))
SortSupport(levels, current_price) ==
    LET ks == StableSort([i \in 1..Len(levels) |->
                  [k1 |-> FSub(F(current_price), levels[i].price),
                   k2 |-> F(-levels[i].touches), v |-> levels[i]]])
    IN  [i \in 1..Len(ks) |-> ks[i].v]

\* Python's s[:n]
PyPrefix(s, n) ==
    IF n >= 0 THEN SubSeq(s, 1, MinI(n, Len(s))) ELSE SubSeq(s, 1, MaxI(0, Len(s) + n))

\* the two sorted lists of detect_sr_levels before the final slicing
SRSorted(d, det) ==
    IF Len(d) < SRMinBars THEN [support |-> <<>>, resistance |-> <<>>]
    ELSE LET cand == SRCandidates(d, det)
         IN  [support    |-> SortSupport(cand.support, d[Len(d)].close),
              resistance |-> SortResistance(cand.resistance, d[Len(d)].close)]

\* how many levels a detect_sr_levels call may be asked for, at most
MaxLimit == 2

\* max_support and max_resistance when the caller leaves them out
DEFAULT_MAX_LEVELS == 3

\* one call of detect_sr_levels(df, max_support, max_resistance), the limits
\* being among those the caller uses
DetectSrLevels ==
    LET full == SRSorted(df, detector)
    IN  \E max_support \in args.limits, max_resistance \in args.limits :
            /\ callsLeft.sr > 0
            /\ callsLeft' = [callsLeft EXCEPT !.sr = @ - 1]
            /\ before' = [call |-> call, trend |-> trend, sr |-> sr]
            /\ sr' = [support    |-> PyPrefix(full.support, max_support),
                      resistance |-> PyPrefix(full.resistance, max_resistance)]
            /\ call' = [op |-> "sr", df0 |-> df, cols0 |-> dfCols, det0 |-> detector,
                        max_support |-> max_support, max_resistance |-> max_resistance,
                        outcome |-> "returned"]
            /\ UNCHANGED <<df, dfCols, detector, trend, args, ret, threads,
                         dashboard, db>>

(***************************************************************************)
(* SRDatabaseUpdater.fetch_price_data                                      *)
(***************************************************************************)
\* the rows cur.fetchall() returns for ORDER BY datetime DESC LIMIT limit,
\* in a DataFrame whose row labels count from 0: `table` holds the rows of
\* the security and interval, oldest first
FetchedRows(table, limit) ==
    [k \in 1..MinI(limit, Len(table)) |->
        [table[Len(table) - k + 1] EXCEPT !.index = k - 1]]

\* df.sort_values('datetime'): the rows in ascending order of datetime, each
\* keeping its label
SortValuesByDatetime(rows) ==
    [i \in 1..Len(rows) |->
        rows[CHOOSE k \in 1..Len(rows) :
                 Cardinality({j \in 1..Len(rows) :
                                  rows[j].datetime < rows[k].datetime}) = i - 1]]

\* one call of fetch_price_data(interval_minutes, limit) on a table that has
\* rows; the caller keeps the DataFrame it returns
FetchPriceData ==
    \E limit \in {MIN_SR_BARS, 500} :
        /\ callsLeft.method > 0 /\ args.rows # <<>>
        /\ callsLeft' = [callsLeft EXCEPT !.method = @ - 1]
        /\ df' = SortValuesByDatetime(FetchedRows(args.rows, limit))
        /\ dfCols' = BaseCols
        /\ UNCHANGED <<detector, call, trend, sr, before, args, ret, threads,
                     dashboard, db>>

(***************************************************************************)
(* The two entry points step by step, one call per thread                  *)
(***************************************************************************)
\* the local variables of a call that has not assigned any of them yet
NoLocals ==
    [atr |-> NaN, fallback |-> FALSE, swings |-> [highs |-> <<>>, lows |-> <<>>],
     round_numbers |-> <<>>,
     resistance_levels |-> <<>>, support_levels |-> <<>>]

\* mutant: find_swing_points keeps the clamped window length on the detector
SelfLookbackClamped(det, d) == [det EXCEPT !.lookback_bars = MinI(@, Len(d))]

\* the detector object after find_swing_points(df) ran on it: the method
\* assigns no attribute of self
SelfAfterSwings(det, d) == det

\* the next step of a detect_sr_levels call: th is the call's frame (its
\* arguments, position and locals), det the detector object as it is now
SrStep(th, det) ==
    LET d == th.df
        current_price == d[Len(d)].close
        IsRes(c) == FLess(F(current_price), c.price) /\ c.touches >= det.min_touches
        IsSup(c) == FLess(c.price, F(current_price)) /\ c.touches >= det.min_touches
        RoundRes(l) == l.type = "resistance"
        RoundSup(l) == l.type = "support"
    IN  CASE th.pc = "start" ->
                IF Len(d) < SRMinBars THEN [th EXCEPT !.pc = "done", !.out = NoSR]
                ELSE [th EXCEPT !.pc = "swings", !.loc.atr = SrVolatility(d).atr,
                                 !.loc.fallback = SrVolatility(d).fallback]
          [] th.pc = "swings" ->
                [th EXCEPT !.pc = "rounds",
                           !.loc.swings = FindSwingPoints(d, det.lookback_bars)]
          [] th.pc = "rounds" ->
                [th EXCEPT !.pc = "highs",
                           !.loc.round_numbers =
                               IF det.include_round_numbers
                               THEN FindRoundNumbers(det.include_round_numbers,
                                        FMul(F(MinLow(d, 1, Len(d))), Norm(95, 100)),
                                        FMul(F(MaxHigh(d, 1, Len(d))), Norm(105, 100)))
                               ELSE <<>>]
          [] th.pc = "highs" ->
                LET highC == SelectSeq(ClusterLevels(th.loc.swings.highs, th.loc.atr,
                                                     det.cluster_threshold_atr), IsRes)
                IN  [th EXCEPT !.pc = "lows",
                               !.loc.resistance_levels =
                                   [i \in 1..Len(highC) |-> SwingLevel(highC[i], "resistance")]]
          [] th.pc = "lows" ->
                LET lowC == SelectSeq(ClusterLevels(th.loc.swings.lows, th.loc.atr,
                                                    det.cluster_threshold_atr), IsSup)
                IN  [th EXCEPT !.pc = "round_levels",
                               !.loc.support_levels =
                                   [i \in 1..Len(lowC) |-> SwingLevel(lowC[i], "support")]]
          [] th.pc = "round_levels" ->
                LET rl == RoundLevelsFrom(d, th.loc.round_numbers, 1, th.loc.atr, det,
                                          current_price)
                IN  [th EXCEPT !.pc = "sort",
                               !.loc.resistance_levels = @ \o SelectSeq(rl, RoundRes),
                               !.loc.support_levels = @ \o SelectSeq(rl, RoundSup)]
          [] th.pc = "sort" ->
                [th EXCEPT !.pc = "done",
                           !.out = [support |->
                                        PyPrefix(SortSupport(th.loc.support_levels,
                                                             current_price),
                                                 th.max_support),
                                    resistance |->
                                        PyPrefix(SortResistance(th.loc.resistance_levels,
                                                                current_price),
                                                 th.max_resistance)]]

\* one step of a detect_sr_levels call running on a thread
DetectSrLevelsStep ==
    \E t \in DOMAIN threads :
        /\ threads[t].kind = "sr" /\ threads[t].pc # "done"
        /\ threads' = [threads EXCEPT ![t] = SrStep(@, detector)]
        /\ detector' = IF threads[t].pc = "swings"
                       THEN SelfAfterSwings(detector, threads[t].df)
                       ELSE detector
        /\ UNCHANGED <<df, dfCols, call, trend, sr, before, callsLeft, args, ret,
                     dashboard, db>>

\* the next step of a calculate_simple_trend call: the length test, the
\* three column assignments on the call's own DataFrame, the decision
TrendStep(th) ==
    CASE th.pc = "start" ->
            IF Len(th.df) < TrendMinBars
            THEN [th EXCEPT !.pc = "done",
                            !.out = [label |-> "NEUTRAL", strength |-> F(0)]]
            ELSE [th EXCEPT !.pc = "ema"]
      [] th.pc = "ema" -> [th EXCEPT !.pc = "decide", !.cols = @ \cup EmaCols]
      [] th.pc = "decide" -> [th EXCEPT !.pc = "done", !.out = TrendOf(th.df)]

\* one step of a calculate_simple_trend call running on a thread
CalculateSimpleTrendStep ==
    \E t \in DOMAIN threads :
        /\ threads[t].kind = "trend" /\ threads[t].pc # "done"
        /\ threads' = [threads EXCEPT ![t] = TrendStep(@)]
        /\ UNCHANGED <<df, dfCols, detector, call, trend, sr, before, callsLeft, args, ret,
                     dashboard, db>>

(***************************************************************************)
(* Inputs of the trend specification                                       *)
(***************************************************************************)
\* number of trailing bars whose close is chosen freely; the bars before
\* them all close at one freely chosen price
TailLen == 3

\* how many bars beyond the 20-bar minimum the longest series has
ExtraTrendBars == 1

Closes == {0, 1, 99, 100, 101}

TsKinds == {"ascending", "duplicate", "unsorted"}

\* the datetime of row i of an L-row series
TsOf(kind, i, L) ==
    IF kind = "duplicate" /\ i = L /\ L > 1 THEN L - 1
    ELSE IF kind = "unsorted" /\ i = L /\ L > 1 THEN L - 1
    ELSE IF kind = "unsorted" /\ i = L - 1 THEN L
    ELSE i

FlatBar(i, ts, c) == [index |-> i - 1, datetime |-> ts, high |-> c, low |-> c, close |-> c]

TrendSeries(L, c0, tail, kind) ==
    [i \in 1..L |->
        FlatBar(i, TsOf(kind, i, L),
                IF i > L - Len(tail) THEN tail[i - (L - Len(tail))] ELSE c0)]

TrendLens ==
    {0, TailLen, MIN_TREND_BARS - 1} \cup (MIN_TREND_BARS .. MIN_TREND_BARS + ExtraTrendBars)

DefaultDetector ==
    [lookback_bars |-> 100, min_touches |-> 2,
     cluster_threshold_atr |-> Norm(1, 2), include_round_numbers |-> TRUE]

InitTrend ==
    /\ \E L \in TrendLens, c0 \in Closes, tail \in [1..TailLen -> Closes] :
          \E kind \in (IF L = MIN_TREND_BARS THEN TsKinds ELSE {"ascending"}) :
              df = TrendSeries(L, c0, tail, kind)
    /\ dfCols = BaseCols
    /\ detector = DefaultDetector
    /\ call = NoCall
    /\ trend = NoTrend
    /\ sr = NoSR
    /\ before = NoBefore
    /\ callsLeft = [trend |-> 2, sr |-> 0, method |-> 0]
    /\ args = NoArgs
    /\ ret = <<>>
    /\ dashboard = NoDashboard
    /\ db = NoDb
    /\ threads = <<>>

NextTrend == CalculateSimpleTrend

SpecTrend == InitTrend /\ [][NextTrend]_vars


(***************************************************************************)
(* Properties of calculate_simple_trend                                    *)
(***************************************************************************)
TrendCalled == call.op = "trend"

AllClosesPositive(d) == \A i \in 1..Len(d) : d[i].close > 0

StrictlyIncreasingTs(d) == \A i \in 1..(Len(d) - 1) : d[i].datetime < d[i + 1].datetime

TrendLabels == {"UPTREND", "DOWNTREND", "SIDEWAYS", "NEUTRAL"}

\* C2: on every series of at least 20 bars with positive closes the call
\* returns one of the four labels and a strength s with 0 <= s <= 100.
C2_LabelAndStrengthInRange ==
    (TrendCalled /\ Len(call.df0) >= 20 /\ AllClosesPositive(call.df0))
        => /\ trend.label \in TrendLabels
           /\ FLeq(F(0), trend.strength)
           /\ FLeq(trend.strength, F(100))

\* C2 witness: a call on 20 or more positive closes whose strength needed the clamp
C2_Witness ==
    /\ TrendCalled /\ Len(call.df0) >= 20 /\ AllClosesPositive(call.df0)
    /\ trend.label = "UPTREND" /\ trend.strength = F(100)
    /\ call.df0[Len(call.df0)].close > 2 * call.df0[1].close

\* The decision table as the claim words it: EMAs by the stated recurrence,
\* the rules numbered 1..5, the lowest-numbered matching rule governs.
C3_Alpha(span) == Norm(2, span + 1)

RECURSIVE C3_EmaFrom(_, _, _, _)
C3_EmaFrom(x, span, t, prev) ==
    IF t > Len(x) THEN prev
    ELSE C3_EmaFrom(x, span, t + 1,
                    FSub(FMul(C3_Alpha(span), F(x[t])),
                         FMul(FSub(C3_Alpha(span), F(1)), prev)))

C3_Ema(x, span) == C3_EmaFrom(x, span, 2, F(x[1]))

C3_Rule(r, c, e3, e8, e20, m) ==
    CASE r = 1 -> FLess(c, e3) /\ FLess(e3, e8) /\ FLess(e8, e20) /\ FLess(m, F(-1))
      [] r = 2 -> FLess(e3, c) /\ FLess(e8, e3) /\ FLess(e20, e8) /\ FLess(F(1), m)
      [] r = 3 -> FLess(c, e8) /\ FLess(c, e20)
      [] r = 4 -> FLess(e8, c) /\ FLess(e20, c)
      [] OTHER -> TRUE

C3_First(c, e3, e8, e20, m) ==
    CHOOSE r \in 1..5 :
        /\ C3_Rule(r, c, e3, e8, e20, m)
        /\ \A q \in 1..(r - 1) : ~C3_Rule(q, c, e3, e8, e20, m)

C3_Down(c, e20) == FMul(FDiv(FAbs(FSub(e20, c)), e20), F(100))

C3_Up(c, e20) == FMul(FDiv(FSub(c, e20), e20), F(100))

C3_Table(r, c, e20) ==
    CASE r = 1 -> [label |-> "DOWNTREND", strength |-> C3_Down(c, e20)]
      [] r = 2 -> [label |-> "UPTREND", strength |-> C3_Up(c, e20)]
      [] r = 3 -> [label |-> "DOWNTREND", strength |-> FMul(Norm(7, 10), C3_Down(c, e20))]
      [] r = 4 -> [label |-> "UPTREND", strength |-> FMul(Norm(7, 10), C3_Up(c, e20))]
      [] OTHER -> [label |-> "SIDEWAYS", strength |-> C3_Down(c, e20)]

C3_Expected(d) ==
    LET x   == CloseOf(d)
        c   == F(x[Len(x)])
        e3  == C3_Ema(x, 3)
        e8  == C3_Ema(x, 8)
        e20 == C3_Ema(x, 20)
        m   == PriceChangePct(x)
    IN  C3_Table(C3_First(c, e3, e8, e20, m), c, e20)

\* C3: on every series of at least 20 bars the label is that of the first
\* matching rule of the five-rule table, and the strength is that rule's
\* strength (cut to 100 by the final clamp).
C3_FirstMatchingRule ==
    (TrendCalled /\ Len(call.df0) >= 20)
        => LET e == C3_Expected(call.df0)
           IN  /\ trend.label = e.label
               /\ trend.strength = (IF FLess(F(100), e.strength) THEN F(100)
                                    ELSE e.strength)

\* C3 witness: a call where rule 1 and rule 3 both match, so the order decides
C3_Witness ==
    /\ TrendCalled /\ Len(call.df0) >= 20
    /\ trend.label = "DOWNTREND"
    /\ LET x == CloseOf(call.df0)
       IN  /\ C3_Rule(1, F(x[Len(x)]), C3_Ema(x, 3), C3_Ema(x, 8), C3_Ema(x, 20),
                      PriceChangePct(x))
           /\ C3_Rule(3, F(x[Len(x)]), C3_Ema(x, 3), C3_Ema(x, 8), C3_Ema(x, 20),
                      PriceChangePct(x))
    /\ FLess(F(0), trend.strength) /\ FLess(trend.strength, F(100))

\* the label as a function of the close, ema8 and ema20 alone
C24_Label(c, e8, e20) ==
    IF FLess(c, e8) /\ FLess(c, e20) THEN "DOWNTREND"
    ELSE IF FLess(e8, c) /\ FLess(e20, c) THEN "UPTREND"
    ELSE "SIDEWAYS"

C24_Clamp(v) == IF FLess(F(100), v) THEN F(100) ELSE v

\* C24: on every series of at least 20 bars with positive closes the label
\* is never NEUTRAL; it is DOWNTREND exactly when close < ema8 and
\* close < ema20, UPTREND exactly when close > ema8 and close > ema20, and
\* SIDEWAYS otherwise; ema3 and the momentum decide only whether the
\* strength carries the factor 1 or 0.7.
C24_LabelFromThreeComparisons ==
    (TrendCalled /\ Len(call.df0) >= 20 /\ AllClosesPositive(call.df0))
        => LET x    == CloseOf(call.df0)
               c    == F(x[Len(x)])
               e20  == C3_Ema(x, 20)
               base == FMul(FDiv(FAbs(FSub(c, e20)), e20), F(100))
           IN  /\ trend.label # "NEUTRAL"
               /\ trend.label = C24_Label(c, C3_Ema(x, 8), e20)
               /\ trend.strength \in
                     {C24_Clamp(base), C24_Clamp(FMul(Norm(7, 10), base))}

\* C24 witness: the close is above ema8 and ema20 while the last five
\* closes fall by more than 1 percent: the label is UPTREND all the same,
\* with the factor 0.7
C24_Witness ==
    /\ TrendCalled /\ Len(call.df0) >= 20 /\ AllClosesPositive(call.df0)
    /\ LET x == CloseOf(call.df0)
       IN  /\ FLess(PriceChangePct(x), F(-1))
           /\ trend.strength
                = C24_Clamp(FMul(Norm(7, 10),
                                 FMul(FDiv(FSub(F(x[Len(x)]), C3_Ema(x, 20)),
                                           C3_Ema(x, 20)), F(100))))
    /\ trend.label = "UPTREND" /\ FLess(F(0), trend.strength)

\* C6: on every series of fewer than 20 bars the call returns exactly
\* ('NEUTRAL', 0) and raises nothing.
C6_ShortSeriesNeutral ==
    (TrendCalled /\ Len(call.df0) < 20)
        => /\ call.outcome = "returned"
           /\ trend = [label |-> "NEUTRAL", strength |-> F(0)]

\* C6 witness: a call on 19 bars whose closes are not all equal
C6_Witness ==
    /\ TrendCalled /\ Len(call.df0) = 19
    /\ call.df0[19].close < call.df0[1].close
    /\ trend.label = "NEUTRAL"

\* C8: a call (of either entry point) on a series whose timestamps are not
\* strictly increasing is rejected with an error.
C8_UnorderedSeriesRejected ==
    (call.op # "none" /\ ~StrictlyIncreasingTs(call.df0)) => call.outcome = "raised"

\* C9: when ema20 is zero or the momentum base close is zero, the returned
\* strength is still a finite number in [0, 100].
C9_ZeroReferenceGuarded ==
    (/\ TrendCalled /\ Len(call.df0) >= 20
     /\ LET x == CloseOf(call.df0)
        IN  \/ EwmMean(x, SPAN_SLOW, Len(x)) = F(0)
            \/ x[Len(x) - 4] = 0)
        => /\ IsFinite(trend.strength)
           /\ FLeq(F(0), trend.strength)
           /\ FLeq(trend.strength, F(100))

\* C10: a call changes neither the bars nor the columns of the series it was
\* given, nor any field of the detector.
C10_NoSideEffects ==
    (call.op # "none")
        => /\ df = call.df0
           /\ dfCols = call.cols0
           /\ detector = call.det0


(***************************************************************************)
(* Inputs of the support/resistance specification                          *)
(***************************************************************************)
\* how many bars beyond the 50-bar minimum the longest series has
ExtraSRBars == 1

SRLens == {0, MIN_SR_BARS - 1} \cup (MIN_SR_BARS .. MIN_SR_BARS + ExtraSRBars)

\* the quiet bar every row is unless an event replaces it
BaseBar == [high |-> 21, low |-> 19, close |-> 20]

\* bars that put an extreme into the series
EventBars ==
    {BaseBar,
     [high |-> 21, low |-> 10, close |-> 20],
     [high |-> 21, low |-> 11, close |-> 20],
     [high |-> 30, low |-> 19, close |-> 20]}

\* where events may sit, counted in rows back from the last row
EventOffsets == {6, 12, 26}

LastCloses == {19, 20, 21}

Lookbacks == {30, MIN_SR_BARS + 1}

MinTouches == {1, 2}

SRSeries(L, ev, lastClose) ==
    [i \in 1..L |->
        LET b == IF i = L THEN [BaseBar EXCEPT !.close = lastClose]
                 ELSE IF (L - i) \in EventOffsets THEN ev[L - i]
                 ELSE BaseBar
        IN  [index |-> i - 1, datetime |-> i, high |-> b.high, low |-> b.low,
             close |-> b.close]]

InitSR ==
    /\ \E L \in SRLens, ev \in [EventOffsets -> EventBars], lastClose \in LastCloses :
          df = SRSeries(L, ev, lastClose)
    /\ dfCols = BaseCols
    /\ \E lb \in Lookbacks, mt \in MinTouches, rn \in BOOLEAN :
          detector = [lookback_bars |-> lb, min_touches |-> mt,
                      cluster_threshold_atr |-> Norm(1, 2),
                      include_round_numbers |-> rn]
    /\ call = NoCall
    /\ trend = NoTrend
    /\ sr = NoSR
    /\ before = NoBefore
    /\ callsLeft = [trend |-> 0, sr |-> 1, method |-> 0]
    /\ args = [NoArgs EXCEPT !.limits = 0..MaxLimit]
    /\ ret = <<>>
    /\ dashboard = NoDashboard
    /\ db = NoDb
    /\ threads = <<>>

NextSR == DetectSrLevels

SpecSR == InitSR /\ [][NextSR]_vars


(***************************************************************************)
(* Properties of detect_sr_levels                                          *)
(***************************************************************************)
SRCalled == call.op = "sr"

LastClose(d) == F(d[Len(d)].close)

Elems(q) == {q[i] : i \in 1..Len(q)}

\* C1: on every series of at least 50 bars each returned support level is
\* strictly below the last close, each returned resistance level strictly
\* above it, and no level is in both lists.
C1_LevelsStrictlyApart ==
    (SRCalled /\ Len(call.df0) >= 50)
        => /\ \A l \in Elems(sr.support) : FLess(l.price, LastClose(call.df0))
           /\ \A l \in Elems(sr.resistance) : FLess(LastClose(call.df0), l.price)
           /\ \A a \in Elems(sr.support), b \in Elems(sr.resistance) : a.price # b.price

\* C4: every returned level, swing-derived or round-number, has at least
\* min_touches touches.
C4_MinTouches ==
    SRCalled
        => \A l \in Elems(sr.support) \cup Elems(sr.resistance) :
               l.touches >= call.det0.min_touches

\* C4 witness: with min_touches = 2 a swing-derived level and a round-number
\* level are returned while a round number of the price range was left out
C4_Witness ==
    /\ SRCalled /\ call.det0.min_touches = 2
    /\ \E l \in Elems(sr.support) : ~l.is_round_number
    /\ \E l \in Elems(sr.support) : l.is_round_number
    /\ call.max_resistance = 2
    /\ \A l \in Elems(sr.resistance) : l.price # F(30)
    /\ \E i \in 1..Len(call.df0) : call.df0[i].high = 30

Dist(l, d) == FAbs(FSub(l.price, LastClose(d)))

\* C5: support is ordered by descending price and resistance by ascending
\* price, equal prices by descending touches; each list is no longer than its
\* limit; no qualifying level that was left out is strictly closer to the
\* last close than a level that was kept.
C5_OrderedAndTruncated ==
    (SRCalled /\ Len(call.df0) >= 50)
        => LET cand == SRCandidates(call.df0, call.det0)
           IN  /\ \A i \in 1..Len(sr.support), j \in 1..Len(sr.support) :
                      i < j => \/ FLess(sr.support[j].price, sr.support[i].price)
                               \/ /\ sr.support[j].price = sr.support[i].price
                                  /\ sr.support[j].touches <= sr.support[i].touches
               /\ \A i \in 1..Len(sr.resistance), j \in 1..Len(sr.resistance) :
                      i < j => \/ FLess(sr.resistance[i].price, sr.resistance[j].price)
                               \/ /\ sr.resistance[j].price = sr.resistance[i].price
                                  /\ sr.resistance[j].touches <= sr.resistance[i].touches
               /\ Len(sr.support) <= call.max_support
               /\ Len(sr.resistance) <= call.max_resistance
               /\ Elems(sr.support) \subseteq Elems(cand.support)
               /\ Elems(sr.resistance) \subseteq Elems(cand.resistance)
               /\ \A c \in Elems(cand.support) \ Elems(sr.support), k \in Elems(sr.support) :
                      ~FLess(Dist(c, call.df0), Dist(k, call.df0))
               /\ \A c \in Elems(cand.resistance) \ Elems(sr.resistance),
                     k \in Elems(sr.resistance) :
                      ~FLess(Dist(c, call.df0), Dist(k, call.df0))

\* C5 witness: three support levels qualify and two are asked for; the kept
\* ones are at different prices, and the one left out has the price of the
\* last one kept but fewer touches
C5_Witness ==
    /\ SRCalled /\ call.max_support = 2 /\ Len(sr.support) = 2
    /\ FLess(sr.support[2].price, sr.support[1].price)
    /\ \E c \in Elems(SRCandidates(call.df0, call.det0).support) \ Elems(sr.support) :
           c.price = sr.support[2].price /\ c.touches < sr.support[2].touches

\* C7: on every series of fewer than 50 bars both returned lists are empty
\* and nothing is raised.
C7_ShortSeriesEmpty ==
    (SRCalled /\ Len(call.df0) < 50)
        => /\ call.outcome = "returned"
           /\ sr = [support |-> <<>>, resistance |-> <<>>]

\* C7 witness: a call on 49 bars that hold a dip and that a detector with
\* round numbers enabled was given
C7_Witness ==
    /\ SRCalled /\ Len(call.df0) = 49
    /\ call.det0.include_round_numbers
    /\ \E i \in 1..49 : call.df0[i].low = 10
    /\ sr.support = <<>>


\* C28: on a series of at least 50 bars but fewer than lookback_bars bars
\* detect_sr_levels returns no swing-derived level: every returned level is
\* a round number, and without round numbers both lists are empty.
C28_ShortOfLookbackOnlyRoundNumbers ==
    (SRCalled /\ Len(call.df0) >= 50 /\ Len(call.df0) < call.det0.lookback_bars)
        => /\ \A l \in Elems(sr.support) \cup Elems(sr.resistance) : l.is_round_number
           /\ ~call.det0.include_round_numbers => sr = NoSR

\* C28 witness: 50 bars and a detector looking back over 51; the series has
\* a swing low a detector looking back over 30 bars reports, and the call
\* returns a round-number level only
C28_Witness ==
    /\ SRCalled /\ Len(call.df0) = 50 /\ call.det0.lookback_bars = 51
    /\ call.det0.min_touches = 1
    /\ FindSwingPoints(call.df0, 30).lows # <<>>
    /\ sr.support # <<>>
    /\ \A l \in Elems(sr.support) : l.is_round_number

(***************************************************************************)
(* Repeated calls                                                          *)
(***************************************************************************)
\* a caller that calls one entry point twice on one DataFrame object
InitRepeat ==
    /\ \/ /\ \E L \in {MIN_TREND_BARS - 1, MIN_TREND_BARS},
                 tail \in [1..TailLen -> {99, 101}] :
                  df = TrendSeries(L, 100, tail, "ascending")
          /\ detector = DefaultDetector
          /\ callsLeft = [trend |-> 2, sr |-> 0, method |-> 0]
       \/ /\ \E ev \in [EventOffsets -> {BaseBar, [high |-> 21, low |-> 10, close |-> 20]}] :
                  df = SRSeries(MIN_SR_BARS, ev, 21)
          /\ detector = [DefaultDetector EXCEPT !.lookback_bars = 30,
                                                !.min_touches = 1]
          /\ callsLeft = [trend |-> 0, sr |-> 2, method |-> 0]
    /\ dfCols = BaseCols
    /\ call = NoCall
    /\ trend = NoTrend
    /\ sr = NoSR
    /\ before = NoBefore
    /\ args = [NoArgs EXCEPT !.limits = 0..MaxLimit]
    /\ ret = <<>>
    /\ dashboard = NoDashboard
    /\ db = NoDb
    /\ threads = <<>>

NextRepeat == CalculateSimpleTrend \/ DetectSrLevels

SpecRepeat == InitRepeat /\ [][NextRepeat]_vars

SameCallAgain ==
    /\ call.op # "none" /\ before.call.op = call.op
    /\ before.call.df0 = call.df0
    /\ before.call.max_support = call.max_support
    /\ before.call.max_resistance = call.max_resistance

MaxExtrema == 4

\* raw extrema (index, price, date) in the order they were found
Extrema(prices) ==
    [i \in 1..Len(prices) |-> [index |-> i - 1, price |-> prices[i], date |-> i]]

InitCluster ==
    /\ \E n \in 0..MaxExtrema, atr \in {F(0), F(1), F(3)} :
          \E prices \in [1..n -> {0, 1, 2, 3, 5}] :
              args = [NoArgs EXCEPT !.levels = Extrema(prices), !.atr = atr]
    /\ df = <<>>
    /\ dfCols = BaseCols
    /\ detector = DefaultDetector
    /\ call = NoCall
    /\ trend = NoTrend
    /\ sr = NoSR
    /\ before = NoBefore
    /\ callsLeft = [trend |-> 0, sr |-> 0, method |-> 2]
    /\ ret = <<>>
    /\ dashboard = NoDashboard
    /\ db = NoDb
    /\ threads = <<>>

NextCluster == ClusterLevelsCall

SpecCluster == InitCluster /\ [][NextCluster]_vars

\* C12: for one list of raw extrema and one atr >= 0, a detector with the
\* larger multiplier never gets more clusters out of cluster_levels than one
\* with the smaller multiplier.
C12_CoarserWithLargerMultiplier ==
    \A i \in 1..Len(ret), j \in 1..Len(ret) :
        (/\ ret[i].op = "cluster_levels" /\ ret[j].op = "cluster_levels"
         /\ FLeq(F(0), args.atr)
         /\ FLeq(F(0), ret[i].det.cluster_threshold_atr)
         /\ FLeq(ret[i].det.cluster_threshold_atr, ret[j].det.cluster_threshold_atr))
            => Len(ret[j].out) <= Len(ret[i].out)

\* C12 witness: two calls on unsorted extrema, the second with the larger
\* multiplier; it gets fewer clusters, still more than one
C12_Witness ==
    /\ Len(ret) = 2
    /\ FLess(ret[1].det.cluster_threshold_atr, ret[2].det.cluster_threshold_atr)
    /\ Len(ret[2].out) < Len(ret[1].out) /\ Len(ret[2].out) > 1
    /\ \E k \in 1..(Len(args.levels) - 1) : args.levels[k].price > args.levels[k + 1].price

\* the candidates in ascending price order (equal prices in input order)
C21_Ascending(levels) ==
    LET Rank(i) == Cardinality({j \in 1..Len(levels) :
                       \/ levels[j].price < levels[i].price
                       \/ levels[j].price = levels[i].price /\ j < i}) + 1
    IN  [r \in 1..Len(levels) |-> levels[CHOOSE i \in 1..Len(levels) : Rank(i) = r]]

\* the mean of the prices at positions s..k of an ascending list, as a
\* float: the running sum and the quotient are each rounded
C21_Mean(asc, s, k) ==
    LET acc[i \in s..k] ==
            IF i = s THEN RoundFloat(F(asc[s].price))
            ELSE RoundFloat(FAdd(acc[i - 1], F(asc[i].price)))
    IN  RoundFloat(FDiv(acc[k], F(k - s + 1)))

\* the positions of an ascending list at which the greedy pass opens a
\* cluster: position 1, and every later position whose price is farther
\* than t from the mean of the members the open cluster has so far
C21_Openings(asc, t) ==
    CHOOSE S \in SUBSET (1..Len(asc)) :
        /\ 1 \in S
        /\ \A k \in 2..Len(asc) :
              LET s == CHOOSE x \in S : x < k /\ \A y \in S : y < k => y <= x
              IN  k \in S <=> FLess(t, FAbs(FSub(F(asc[k].price), C21_Mean(asc, s, k - 1))))

\* the members of the cluster opened at position s
C21_Members(asc, S, s) ==
    {k \in s..Len(asc) : \A x \in S : x <= s \/ x > k}

\* C21: cluster_levels equals the single-pass greedy reference: candidates
\* in ascending price order, a candidate joins the open cluster exactly when
\* it is within atr * cluster_threshold_atr of the mean of the cluster's
\* members so far, otherwise it opens a new cluster; every emitted cluster
\* has the mean of its members as price, their number as touches, and the
\* earliest and latest member date as first_seen and last_seen.
C21_GreedyReference ==
    \A i \in 1..Len(ret) :
        (ret[i].op = "cluster_levels" /\ args.levels # <<>>)
            => LET asc == C21_Ascending(args.levels)
                   S == C21_Openings(asc, FMul(args.atr, ret[i].det.cluster_threshold_atr))
                   out == ret[i].out
               IN  /\ Len(out) = Cardinality(S)
                   /\ \A c \in 1..Len(out) :
                         \E s \in S :
                             LET m == C21_Members(asc, S, s)
                             IN  /\ Cardinality({x \in S : x <= s}) = c
                                 /\ out[c].touches = Cardinality(m)
                                 /\ out[c].price = C21_Mean(asc, s, s + Cardinality(m) - 1)
                                 /\ \E k \in m : out[c].first_seen = asc[k].date
                                 /\ \A k \in m : out[c].first_seen <= asc[k].date
                                 /\ \E k \in m : out[c].last_seen = asc[k].date
                                 /\ \A k \in m : out[c].last_seen >= asc[k].date

\* C21 witness: extrema 1, 0, 2 with threshold 1: 2 is within 1 of the member
\* 1 but not of the mean 1/2 of the cluster {0, 1}, so it opens a second
\* cluster
C21_Witness ==
    /\ Len(ret) >= 1 /\ ret[1].op = "cluster_levels"
    /\ [k \in 1..Len(args.levels) |-> args.levels[k].price] = <<1, 0, 2>>
    /\ FMul(args.atr, ret[1].det.cluster_threshold_atr) = F(1)
    /\ Len(ret[1].out) = 2
    /\ ret[1].out[1] = [price |-> Norm(1, 2), touches |-> 2, first_seen |-> 1,
                        last_seen |-> 2]
    /\ ret[1].out[2].price = F(2)


(***************************************************************************)
(* find_round_numbers on its own                                           *)
(***************************************************************************)
\* ends of the price ranges passed to find_round_numbers: values on, just
\* below and just above the increment thresholds and the multiples kept
RangeEnds ==
    {F(0), Norm(1, 2), F(9), F(10), Norm(201, 2), F(50), F(99), F(100), F(101),
     F(499), F(500), F(1000), F(1001), F(4999), F(5000), F(10000), F(10001),
     F(15000)}

InitRound ==
    /\ \E lo \in RangeEnds, hi \in RangeEnds :
          args = [NoArgs EXCEPT !.min_price = lo, !.max_price = hi]
    /\ \E rn \in BOOLEAN :
          detector = [DefaultDetector EXCEPT !.include_round_numbers = rn]
    /\ df = <<>>
    /\ dfCols = BaseCols
    /\ call = NoCall
    /\ trend = NoTrend
    /\ sr = NoSR
    /\ before = NoBefore
    /\ callsLeft = [trend |-> 0, sr |-> 0, method |-> 1]
    /\ ret = <<>>
    /\ dashboard = NoDashboard
    /\ db = NoDb
    /\ threads = <<>>

NextRound == FindRoundNumbersCall

SpecRound == InitRound /\ [][NextRound]_vars

\* the increment the claim names for a range ending at hi
C13_Increment(hi) ==
    IF FLess(F(10000), hi) THEN 500
    ELSE IF FLess(F(1000), hi) THEN 50
    ELSE IF FLess(F(100), hi) THEN 5
    ELSE 1

\* the multiples of 10 * increment in [lo, hi], ascending
C13_Multiples(lo, hi) ==
    LET unit == 10 * C13_Increment(hi)
        InRange(v) == FLeq(lo, F(v)) /\ FLeq(F(v), hi)
    IN  SelectSeq([k \in 1..(TruncInt(hi) \div unit + 1) |-> (k - 1) * unit], InRange)

\* C13: for a range with 0 <= min_price, find_round_numbers returns exactly
\* the ascending list of the multiples of 10 * increment in
\* [min_price, max_price], the increment being 500, 50, 5 or 1 by the size
\* of max_price; with include_round_numbers false it returns the empty list.
C13_RoundNumbersAreTheMultiples ==
    \A i \in 1..Len(ret) :
        (ret[i].op = "find_round_numbers" /\ FLeq(F(0), args.min_price))
            => ret[i].out = (IF ret[i].det.include_round_numbers
                             THEN C13_Multiples(args.min_price, args.max_price)
                             ELSE <<>>)

\* C13 witness: a range that starts off the grid and ends above 10000, in
\* which two multiples of 5000 lie
C13_Witness ==
    /\ Len(ret) = 1 /\ ret[1].op = "find_round_numbers"
    /\ FLess(F(10000), args.max_price)
    /\ Len(ret[1].out) = 2
    /\ FLess(args.min_price, F(ret[1].out[1]))
    /\ FLess(F(ret[1].out[2]), args.max_price)


(***************************************************************************)
(* The momentum of calculate_simple_trend                                  *)
(***************************************************************************)
\* series whose last five closes, the ones tail(5) takes, are chosen freely
\* around the price of all the bars before them
InitMomentum ==
    /\ \E L \in {MIN_TREND_BARS, MIN_TREND_BARS + 1},
          tail \in [1..RECENT_BARS -> {99, 100, 101}] :
          df = TrendSeries(L, 100, tail, "ascending")
    /\ dfCols = BaseCols
    /\ detector = DefaultDetector
    /\ call = NoCall
    /\ trend = NoTrend
    /\ sr = NoSR
    /\ before = NoBefore
    /\ callsLeft = [trend |-> 1, sr |-> 0, method |-> 0]
    /\ args = NoArgs
    /\ ret = <<>>
    /\ dashboard = NoDashboard
    /\ db = NoDb
    /\ threads = <<>>

NextMomentum == CalculateSimpleTrend

SpecMomentum == InitMomentum /\ [][NextMomentum]_vars

\* percent change from the close `back` bars before the last bar to the last
C14_Momentum(x, back) ==
    FMul(FDiv(FSub(F(x[Len(x)]), F(x[Len(x) - back])), F(x[Len(x) - back])), F(100))

\* what the five-rule table gives when rules 1 and 2 test C14_Momentum(x, back)
C14_Expected(d, back) ==
    LET x   == CloseOf(d)
        c   == F(x[Len(x)])
        e3  == C3_Ema(x, 3)
        e8  == C3_Ema(x, 8)
        e20 == C3_Ema(x, 20)
        m   == C14_Momentum(x, back)
        e   == C3_Table(C3_First(c, e3, e8, e20, m), c, e20)
    IN  [label |-> e.label,
         strength |-> IF FLess(F(100), e.strength) THEN F(100) ELSE e.strength]

\* C14 as stated: rules 1 and 2 test the percent change from the close five
\* bars before the last bar, close[last-5], to the last close.
C14_MomentumFromFiveBarsBack ==
    (TrendCalled /\ Len(call.df0) >= 20) => trend = C14_Expected(call.df0, 5)

\* C14 amended: rules 1 and 2 test the percent change from the first of the
\* last five closes, close[last-4], to the last close.
C14_MomentumOverLastFiveCloses ==
    (TrendCalled /\ Len(call.df0) >= 20) => trend = C14_Expected(call.df0, 4)

\* C14 witness: rule 2 governed, with the change over the last five closes
\* above 1 percent and the change from close[last-5] not above it
C14_Witness ==
    /\ TrendCalled /\ Len(call.df0) >= 20
    /\ LET x == CloseOf(call.df0)
       IN  /\ C3_Rule(2, F(x[Len(x)]), C3_Ema(x, 3), C3_Ema(x, 8), C3_Ema(x, 20),
                      C14_Momentum(x, 4))
           /\ ~FLess(F(1), C14_Momentum(x, 5))
    /\ trend = C14_Expected(call.df0, 4)
    /\ trend # C14_Expected(call.df0, 5)


(***************************************************************************)
(* Two calls at once on one detector object                                *)
(***************************************************************************)
\* a call about to start on a thread of its own
NewThread(kind, d, det) ==
    [kind |-> kind, pc |-> "start", df |-> d, cols |-> BaseCols,
     max_support |-> MaxLimit, max_resistance |-> MaxLimit, det0 |-> det,
     loc |-> NoLocals, out |-> <<>>]

\* the series the two threads are given, each its own
ThreadSeries(kind) ==
    IF kind = "sr"
    THEN {SRSeries(L, ev, 21) :
              L \in {MIN_SR_BARS - 1, MIN_SR_BARS, MIN_SR_BARS + 1},
              ev \in [EventOffsets -> {BaseBar, [high |-> 21, low |-> 10, close |-> 20]}]}
    ELSE {TrendSeries(L, 100, <<c, 101>>, "ascending") :
              L \in {MIN_TREND_BARS - 1, MIN_TREND_BARS}, c \in {99, 100, 101}}

InitThreads ==
    /\ \E lb \in {30, MIN_SR_BARS + 1} :
          detector = [DefaultDetector EXCEPT !.lookback_bars = lb, !.min_touches = 1]
    /\ \E kind \in {"sr", "trend"} :
          \E d1 \in ThreadSeries(kind), d2 \in ThreadSeries(kind) :
              threads = <<NewThread(kind, d1, detector), NewThread(kind, d2, detector)>>
    /\ df = <<>>
    /\ dfCols = BaseCols
    /\ call = NoCall
    /\ trend = NoTrend
    /\ sr = NoSR
    /\ before = NoBefore
    /\ callsLeft = [trend |-> 0, sr |-> 0, method |-> 0]
    /\ args = NoArgs
    /\ ret = <<>>
    /\ dashboard = NoDashboard
    /\ db = NoDb

NextThreads == DetectSrLevelsStep \/ CalculateSimpleTrendStep

SpecThreads == InitThreads /\ [][NextThreads]_vars

\* what the call of thread th returns when it runs alone on the detector
\* the threads were started with
C15_Alone(th) ==
    IF th.kind = "trend" THEN TrendOf(th.df)
    ELSE LET full == SRSorted(th.df, th.det0)
         IN  [support    |-> PyPrefix(full.support, th.max_support),
              resistance |-> PyPrefix(full.resistance, th.max_resistance)]

\* C15: of two calls running at once on threads of their own, each with its
\* own series and sharing one detector object, each returns what it returns
\* when run alone, however their steps interleave; no call writes the
\* detector the other one reads.
C15_ConcurrentCallsIndependent ==
    \A t \in DOMAIN threads :
        /\ detector = threads[t].det0
        /\ threads[t].pc = "done" => threads[t].out = C15_Alone(threads[t])

\* C15 witness: thread 1 has found its swing points and not yet clustered
\* them, and meanwhile thread 2 ran its whole call on another, shorter series
\* and returned a level
C15_Witness ==
    /\ Len(threads) = 2
    /\ threads[1].kind = "sr" /\ threads[1].pc = "highs"
    /\ threads[1].loc.swings.lows # <<>>
    /\ threads[2].pc = "done" /\ threads[2].out.support # <<>>
    /\ Len(threads[2].df) < Len(threads[1].df)


(***************************************************************************)
(* Flat series                                                             *)
(***************************************************************************)
\* the highest price of a flat series
MaxFlatPrice == 30

FLAT_BARS == 100

InitFlat ==
    /\ \E c \in 1..MaxFlatPrice : df = [i \in 1..FLAT_BARS |-> FlatBar(i, i, c)]
    /\ dfCols = BaseCols
    /\ detector = DefaultDetector
    /\ call = NoCall
    /\ trend = NoTrend
    /\ sr = NoSR
    /\ before = NoBefore
    /\ callsLeft = [trend |-> 0, sr |-> 1, method |-> 1]
    /\ args = [NoArgs EXCEPT !.limits = 0..MaxLimit]
    /\ ret = <<>>
    /\ dashboard = NoDashboard
    /\ db = NoDb
    /\ threads = <<>>

NextFlat == FindSwingPointsCall \/ DetectSrLevels

SpecFlat == InitFlat /\ [][NextFlat]_vars

IsFlat(d) ==
    \A i \in 1..Len(d) : d[i].high = d[1].close /\ d[i].low = d[1].close
                          /\ d[i].close = d[1].close

\* C16: on 100 bars that all have high = low = close = c > 0, with a default
\* detector, find_swing_points finds no swing high and no swing low, and
\* detect_sr_levels returns an empty support and an empty resistance list.
C16_FlatSeriesNoLevels ==
    (Len(df) = 100 /\ IsFlat(df) /\ df[1].close > 0 /\ detector = DefaultDetector)
        => /\ \A i \in 1..Len(ret) :
                  ret[i].op = "find_swing_points"
                      => ret[i].out = [highs |-> <<>>, lows |-> <<>>]
           /\ SRCalled => sr = [support |-> <<>>, resistance |-> <<>>]


(***************************************************************************)
(* Two lows at 100 under a close of 115                                    *)
(***************************************************************************)
\* an L-row series of quiet bars (115/114/115) with two dips to 100, up to
\* three pairs of shallow dips (to 113, 112 and 111) and possibly one spike
\* to 1001; rows are placed by their distance o from the last row
DipSeries(L, dips, pairs, spike) ==
    [i \in 1..L |->
        LET o == L - i
            shallow == CASE o \in {55, 62} -> 113
                         [] o \in {69, 76} -> 112
                         [] o \in {83, 90} -> 111
                         [] OTHER -> 0
            b == IF o = dips[1] \/ o = dips[2] THEN [high |-> 115, low |-> 100]
                 ELSE IF spike /\ o = 20 THEN [high |-> 1001, low |-> 114]
                 ELSE IF shallow > 113 - pairs THEN [high |-> 115, low |-> shallow]
                 ELSE [high |-> 115, low |-> 114]
        IN  [index |-> i - 1, datetime |-> i, high |-> b.high, low |-> b.low,
             close |-> 115]]

InitDips ==
    /\ \E L \in {MIN_SR_BARS, 99, 100, 101}, pairs \in 0..3, spike \in BOOLEAN,
          dips \in {<<45, 30>>, <<40, 30>>, <<48, 2>>, <<30, 0>>} :
          df = DipSeries(L, dips, pairs, spike)
    /\ dfCols = BaseCols
    /\ detector = DefaultDetector
    /\ call = NoCall
    /\ trend = NoTrend
    /\ sr = NoSR
    /\ before = NoBefore
    /\ callsLeft = [trend |-> 0, sr |-> 1, method |-> 0]
    /\ args = [NoArgs EXCEPT !.limits = {DEFAULT_MAX_LEVELS}]
    /\ ret = <<>>
    /\ dashboard = NoDashboard
    /\ db = NoDb
    /\ threads = <<>>

NextDips == DetectSrLevels

SpecDips == InitDips /\ [][NextDips]_vars

\* the series of the scenario: at least 50 bars, exactly two of them with
\* low = 100, these at least 10 bars apart, every other low above 110, the
\* last close 115
C17_TwoLowsAt100(d) ==
    /\ Len(d) >= 50
    /\ \E i \in 1..Len(d), j \in 1..Len(d) :
          /\ j - i >= 10
          /\ d[i].low = 100 /\ d[j].low = 100
          /\ \A k \in 1..Len(d) \ {i, j} : d[k].low > 110
    /\ d[Len(d)].close = 115

C17_DefaultCall ==
    /\ SRCalled /\ call.det0 = DefaultDetector
    /\ call.max_support = 3 /\ call.max_resistance = 3

\* a returned support level within the touch tolerance of 100, touched twice
C17_Near100(l, d) ==
    /\ FLeq(FAbs(FSub(l.price, F(100))), FMul(CalculateAtrLast(d, 14), Norm(1, 2)))
    /\ l.touches >= 2

\* C17 as stated: on every such series a default call returns a support
\* level within tolerance of 100 with at least 2 touches.
C17_SupportNear100 ==
    (C17_DefaultCall /\ C17_TwoLowsAt100(call.df0))
        => \E l \in Elems(sr.support) : C17_Near100(l, call.df0)

\* C17 amended: when moreover 1.05 times the highest high is at most 1000,
\* a default call returns such a level unless it returns max_support levels
\* that all lie nearer to the close than 100.
C17_SupportNear100UnlessCrowdedOut ==
    (/\ C17_DefaultCall /\ C17_TwoLowsAt100(call.df0)
     /\ \A i \in 1..Len(call.df0) : 105 * call.df0[i].high <= 100000)
        => \/ \E l \in Elems(sr.support) : C17_Near100(l, call.df0)
           \/ /\ Len(sr.support) = call.max_support
              /\ \A l \in Elems(sr.support) : FLess(F(100), l.price)

\* C17 witness: on 100 bars the level at 100 is returned behind two nearer
\* support levels
C17_Witness ==
    /\ C17_DefaultCall /\ C17_TwoLowsAt100(call.df0) /\ Len(call.df0) = 100
    /\ \A i \in 1..Len(call.df0) : 105 * call.df0[i].high <= 100000
    /\ Len(sr.support) = 3
    /\ FLess(F(100), sr.support[2].price)
    /\ C17_Near100(sr.support[3], call.df0)


(***************************************************************************)
(* Rising series                                                           *)
(***************************************************************************)
\* how many rise choices a series is built from; they repeat along the series
RiseChoices == 5

\* the closes of an L-bar series that rises at every bar: each close is the
\* least price above the previous close at which the three averages are
\* whole numbers again (e3, e8, e20 are the averages so far), or the next
\* such price, as the rise choice of the bar says
RECURSIVE RisingCloses(_, _, _, _, _, _)
RisingCloses(xs, e3, e8, e20, L, rises) ==
    IF Len(xs) >= L THEN xs
    ELSE LET last == xs[Len(xs)]
             x0 == CHOOSE x \in (last + 1)..(last + 378) :
                       /\ (x - e3) % 2 = 0 /\ (x - e8) % 9 = 0 /\ (x - e20) % 21 = 0
                       /\ ((x - e8) \div 9 - (x - e20) \div 21) % 3 = 0
             x  == x0 + 378 * rises[(Len(xs) % Len(rises)) + 1]
         IN  RisingCloses(Append(xs, x), e3 + (x - e3) \div 2, e8 + 2 * ((x - e8) \div 9),
                          e20 + 2 * ((x - e20) \div 21), L, rises)

InitRising ==
    /\ \E L \in {MIN_TREND_BARS, MIN_TREND_BARS + 1, 24}, c \in {100, 1000000},
          rises \in [1..RiseChoices -> {0, 1}] :
          LET xs == RisingCloses(<<c>>, c, c, c, L, rises)
          IN  df = [i \in 1..L |-> FlatBar(i, i, xs[i])]
    /\ dfCols = BaseCols
    /\ detector = DefaultDetector
    /\ call = NoCall
    /\ trend = NoTrend
    /\ sr = NoSR
    /\ before = NoBefore
    /\ callsLeft = [trend |-> 1, sr |-> 0, method |-> 0]
    /\ args = NoArgs
    /\ ret = <<>>
    /\ dashboard = NoDashboard
    /\ db = NoDb
    /\ threads = <<>>

NextRising == CalculateSimpleTrend

SpecRising == InitRising /\ [][NextRising]_vars

C18_StrictlyRising(d) ==
    /\ Len(d) >= 20 /\ AllClosesPositive(d)
    /\ \A i \in 1..(Len(d) - 1) : d[i].close < d[i + 1].close

\* C18: on every series of at least 20 bars whose closes are positive and
\* each strictly greater than the one before, the call returns UPTREND with a
\* strength above 0, and at the final bar close > ema3 > ema8 > ema20.
C18_RisingIsUptrend ==
    (TrendCalled /\ C18_StrictlyRising(call.df0))
        => LET x == CloseOf(call.df0)
               L == Len(x)
           IN  /\ trend.label = "UPTREND"
               /\ FLess(F(0), trend.strength)
               /\ FLess(EwmMean(x, SPAN_FAST, L), F(x[L]))
               /\ FLess(EwmMean(x, SPAN_MID, L), EwmMean(x, SPAN_FAST, L))
               /\ FLess(EwmMean(x, SPAN_SLOW, L), EwmMean(x, SPAN_MID, L))

\* C18 witness: 24 rising bars whose last five closes gain no more than
\* 1 percent, so that rule 4 and not rule 2 gives the label
C18_Witness ==
    /\ TrendCalled /\ C18_StrictlyRising(call.df0) /\ Len(call.df0) = 24
    /\ ~FLess(F(1), C14_Momentum(CloseOf(call.df0), 4))
    /\ trend.label = "UPTREND" /\ FLess(F(0), trend.strength)


(***************************************************************************)
(* Swing levels on either side of the close                                *)
(***************************************************************************)
\* a 50-bar series of quiet bars with dips to 10 and spikes to 30 at the
\* event offsets, whose last bar closes below the dips, between dips and
\* spikes, or above the spikes
SidesSeries(ev, lastClose) ==
    [i \in 1..MIN_SR_BARS |->
        LET b == IF i = MIN_SR_BARS
                 THEN [high |-> MaxI(21, lastClose), low |-> MinI(19, lastClose),
                       close |-> lastClose]
                 ELSE IF (MIN_SR_BARS - i) \in EventOffsets THEN ev[MIN_SR_BARS - i]
                 ELSE BaseBar
        IN  [index |-> i - 1, datetime |-> i, high |-> b.high, low |-> b.low,
             close |-> b.close]]

InitSides ==
    /\ \E lastClose \in {5, 20, 35},
          ev \in [EventOffsets -> {BaseBar, [high |-> 21, low |-> 10, close |-> 20],
                                   [high |-> 30, low |-> 19, close |-> 20]}] :
          df = SidesSeries(ev, lastClose)
    /\ \E lb \in {30, MIN_SR_BARS}, mt \in MinTouches, rn \in BOOLEAN :
          detector = [DefaultDetector EXCEPT !.lookback_bars = lb, !.min_touches = mt,
                                            !.include_round_numbers = rn]
    /\ dfCols = BaseCols
    /\ call = NoCall
    /\ trend = NoTrend
    /\ sr = NoSR
    /\ before = NoBefore
    /\ callsLeft = [trend |-> 0, sr |-> 1, method |-> 0]
    /\ args = [NoArgs EXCEPT !.limits = {DEFAULT_MAX_LEVELS}]
    /\ ret = <<>>
    /\ dashboard = NoDashboard
    /\ db = NoDb
    /\ threads = <<>>

NextSides == DetectSrLevels

SpecSides == InitSides /\ [][NextSides]_vars

\* the clusters of swing highs ("highs") or swing lows ("lows") of series d
\* that have enough touches for detector det
C19_Clusters(d, det, kind) ==
    LET swings == FindSwingPoints(d, det.lookback_bars)
        cs == ClusterLevels(IF kind = "highs" THEN swings.highs ELSE swings.lows,
                            CalculateAtrLast(d, 14), det.cluster_threshold_atr)
    IN  {c \in Elems(cs) : c.touches >= det.min_touches}

\* list q holds the swing level made of cluster c
C19_Holds(q, c) ==
    \E l \in Elems(q) : ~l.is_round_number /\ l.price = c.price /\ l.touches = c.touches

\* C19 as stated: a clustered candidate with enough touches is a support
\* candidate when its price is below the close and a resistance candidate
\* when above it, whether it was built from swing highs or from swing lows
\* (a list that is not full holds every candidate of its side).
C19_AssignedByPriceAlone ==
    (SRCalled /\ Len(call.df0) >= 50)
        => \A kind \in {"highs", "lows"} :
               \A c \in C19_Clusters(call.df0, call.det0, kind) :
                   /\ (FLess(c.price, LastClose(call.df0))
                          /\ Len(sr.support) < call.max_support)
                         => C19_Holds(sr.support, c)
                   /\ (FLess(LastClose(call.df0), c.price)
                          /\ Len(sr.resistance) < call.max_resistance)
                         => C19_Holds(sr.resistance, c)

\* C19 amended: a cluster of swing highs with enough touches is a resistance
\* candidate when its price is above the close and is dropped otherwise; a
\* cluster of swing lows with enough touches is a support candidate when its
\* price is below the close and is dropped otherwise.
C19_AssignedByKindAndPrice ==
    (SRCalled /\ Len(call.df0) >= 50
     /\ Len(sr.support) < call.max_support /\ Len(sr.resistance) < call.max_resistance)
        => /\ \A c \in C19_Clusters(call.df0, call.det0, "highs") :
                  /\ C19_Holds(sr.resistance, c) <=> FLess(LastClose(call.df0), c.price)
                  /\ ~C19_Holds(sr.support, c)
           /\ \A c \in C19_Clusters(call.df0, call.det0, "lows") :
                  /\ C19_Holds(sr.support, c) <=> FLess(c.price, LastClose(call.df0))
                  /\ ~C19_Holds(sr.resistance, c)

\* C19 witness: the close is above a cluster of two swing highs and above a
\* swing low; the swing low is returned as support, the cluster of highs in
\* neither list
C19_Witness ==
    /\ SRCalled /\ Len(call.df0) >= 50
    /\ \E c \in C19_Clusters(call.df0, call.det0, "highs") :
           /\ c.touches = 2
           /\ FLess(c.price, LastClose(call.df0))
           /\ ~C19_Holds(sr.support, c) /\ ~C19_Holds(sr.resistance, c)
    /\ \E l \in Elems(sr.support) : ~l.is_round_number


(***************************************************************************)
(* find_swing_points on short windows with ties and edge bars              *)
(***************************************************************************)
\* series of 12, 13 or 17 quiet bars in which the rows 0, 4, 5, 6, 7 and 11
\* (0-based) may instead spike to 22 or dip to 18; the detector looks back
\* over 11, 12, 13 or 17 bars
InitSwings ==
    /\ \E L \in {12, 13, 17},
          ev \in [{0, 4, 5, 6, 7, 11} -> {BaseBar, [high |-> 22, low |-> 19, close |-> 20],
                                          [high |-> 21, low |-> 18, close |-> 20]}] :
          df = [i \in 1..L |->
                   LET b == IF (i - 1) \in DOMAIN ev THEN ev[i - 1] ELSE BaseBar
                   IN  [index |-> i - 1, datetime |-> i, high |-> b.high, low |-> b.low,
                        close |-> b.close]]
    /\ \E lb \in {11, 12, 13, 17} :
          detector = [DefaultDetector EXCEPT !.lookback_bars = lb]
    /\ dfCols = BaseCols
    /\ call = NoCall
    /\ trend = NoTrend
    /\ sr = NoSR
    /\ before = NoBefore
    /\ callsLeft = [trend |-> 0, sr |-> 0, method |-> 1]
    /\ args = NoArgs
    /\ ret = <<>>
    /\ dashboard = NoDashboard
    /\ db = NoDb
    /\ threads = <<>>

NextSwings == FindSwingPointsCall

SpecSwings == InitSwings /\ [][NextSwings]_vars

\* bar i (0-based) of the window of the last L bars of series d
C20_Bar(d, L, i) == d[Len(d) - L + i + 1]

\* the positions i of that window with 5 <= i <= L-6 whose high is strictly
\* greater than every other high in positions i-5..i+5
C20_HighPositions(d, L) ==
    {i \in 5..(L - 6) :
        \A j \in ((i - 5)..(i + 5)) \ {i} : C20_Bar(d, L, i).high > C20_Bar(d, L, j).high}

\* and those whose low is strictly less than every other low there
C20_LowPositions(d, L) ==
    {i \in 5..(L - 6) :
        \A j \in ((i - 5)..(i + 5)) \ {i} : C20_Bar(d, L, i).low < C20_Bar(d, L, j).low}

\* list q reports exactly the positions ps, each once
C20_Reports(q, ps) ==
    /\ {q[k].index : k \in 1..Len(q)} = ps
    /\ Len(q) = Cardinality(ps)

\* C20: within the window of the last lookback_bars bars, find_swing_points
\* reports position i as a swing high exactly when 5 <= i <= L-6 and
\* high[i] is strictly greater than every other high in positions i-5..i+5,
\* and as a swing low exactly when low[i] is strictly less than every other
\* low there; a bar that ties the extreme of its window is not reported.
C20_SwingsAreStrictExtremes ==
    \A k \in 1..Len(ret) :
        (ret[k].op = "find_swing_points" /\ Len(df) >= ret[k].det.lookback_bars)
            => /\ C20_Reports(ret[k].out.highs,
                              C20_HighPositions(df, ret[k].det.lookback_bars))
               /\ C20_Reports(ret[k].out.lows,
                              C20_LowPositions(df, ret[k].det.lookback_bars))

\* C20 witness: positions 4 and 5 of a 12-bar window tie for the highest
\* high and position 5 is not reported, while position 6 alone has the
\* lowest low and is reported as a swing low
C20_Witness ==
    /\ Len(ret) = 1 /\ ret[1].op = "find_swing_points"
    /\ ret[1].det.lookback_bars = 12 /\ Len(df) = 13
    /\ C20_Bar(df, 12, 4).high = 22 /\ C20_Bar(df, 12, 5).high = 22
    /\ ret[1].out.highs = <<>>
    /\ Len(ret[1].out.lows) = 1 /\ ret[1].out.lows[1].index = 6


\* the indexes a list of swing points reports
C25_Indexes(q) == {q[k].index : k \in 1..Len(q)}

\* C25: any two swing highs find_swing_points reports are more than 5 bars
\* apart, and so are any two swing lows; no reported swing point lies in
\* the first 5 or the last 5 bars of the lookback window.
C25_SwingsApartAndInside ==
    \A k \in 1..Len(ret) :
        ret[k].op = "find_swing_points"
            => /\ \A i, j \in C25_Indexes(ret[k].out.highs) : i < j => j - i > 5
               /\ \A i, j \in C25_Indexes(ret[k].out.lows) : i < j => j - i > 5
               /\ \A i \in C25_Indexes(ret[k].out.highs) \cup C25_Indexes(ret[k].out.lows) :
                      i >= 5 /\ i <= ret[k].det.lookback_bars - 6

\* C25 witness: a 17-bar window with swing highs reported at positions 5
\* and 11, six bars apart, the first and the last position a swing may
\* take, and with two equal dips three bars apart, neither of them reported
C25_Witness ==
    /\ Len(ret) = 1 /\ ret[1].op = "find_swing_points"
    /\ ret[1].det.lookback_bars = 17
    /\ C25_Indexes(ret[1].out.highs) = {5, 11}
    /\ df[5].low = 18 /\ df[5].low = df[8].low /\ ret[1].out.lows = <<>>

(***************************************************************************)
(* count_touches on its own                                                *)
(***************************************************************************)
\* series of one to three bars, among them a bar whose high equals its low;
\* level prices 20 and 21; atr 0, 1 or (as no caller of the detector does)
\* negative
InitTouches ==
    /\ \E n \in 1..3 :
          \E bars \in [1..n -> {BaseBar, [high |-> 20, low |-> 20, close |-> 20],
                                [high |-> 22, low |-> 21, close |-> 21],
                                [high |-> 30, low |-> 25, close |-> 26]}] :
              df = [i \in 1..n |-> [index |-> i - 1, datetime |-> i, high |-> bars[i].high,
                                    low |-> bars[i].low, close |-> bars[i].close]]
    /\ \E p \in {20, 21}, atr \in {F(0), F(1), F(-1)} :
          args = [NoArgs EXCEPT !.level_price = p, !.atr = atr]
    /\ dfCols = BaseCols
    /\ detector = DefaultDetector
    /\ call = NoCall
    /\ trend = NoTrend
    /\ sr = NoSR
    /\ before = NoBefore
    /\ callsLeft = [trend |-> 0, sr |-> 0, method |-> 1]
    /\ ret = <<>>
    /\ dashboard = NoDashboard
    /\ db = NoDb
    /\ threads = <<>>

NextTouches == CountTouchesCall

SpecTouches == InitTouches /\ [][NextTouches]_vars

\* value v lies in the closed band [p - t, p + t]
C22_InBand(v, p, t) == FLeq(FAbs(F(v - p)), t)

\* C22: count_touches(df, p, atr) is the number of bars whose high lies in
\* the closed band [p - t, p + t] plus the number of bars whose low does,
\* t = atr * cluster_threshold_atr, over all bars of the series; a bar with
\* both in the band counts twice.
C22_HighsPlusLows ==
    \A k \in 1..Len(ret) :
        ret[k].op = "count_touches"
            => LET t == FMul(args.atr, ret[k].det.cluster_threshold_atr)
               IN  ret[k].out
                     = Cardinality({<<i, "high">> : i \in {j \in 1..Len(df) :
                                        C22_InBand(df[j].high, args.level_price, t)}}
                                   \cup
                                   {<<i, "low">> : i \in {j \in 1..Len(df) :
                                        C22_InBand(df[j].low, args.level_price, t)}})

\* C22 witness: a call that counts more touches than the series has bars,
\* with a high exactly on the upper edge of the band
C22_Witness ==
    /\ Len(ret) = 1 /\ ret[1].op = "count_touches"
    /\ ret[1].out > Len(df)
    /\ \E i \in 1..Len(df) :
           F(df[i].high - args.level_price)
             = FMul(args.atr, ret[1].det.cluster_threshold_atr)
    /\ \E i \in 1..Len(df) : ~C22_InBand(df[i].high, args.level_price,
                                          FMul(args.atr, ret[1].det.cluster_threshold_atr))


(***************************************************************************)
(* The volatility detect_sr_levels works with                              *)
(***************************************************************************)
\* series of 49 to 51 quiet bars in which the last bar, the bar before it,
\* the first bar of the 14-bar window and the bar before that window may
\* instead lie wholly above or wholly below their neighbours' closes
InitAtr ==
    /\ \E L \in {MIN_SR_BARS - 1, MIN_SR_BARS, MIN_SR_BARS + 1},
          ev \in [{0, 1, 13, 14} -> {BaseBar, [high |-> 30, low |-> 25, close |-> 30],
                                     [high |-> 15, low |-> 10, close |-> 10]}],
          rn \in BOOLEAN :
          LET d == [i \in 1..L |->
                       LET b == IF (L - i) \in DOMAIN ev THEN ev[L - i] ELSE BaseBar
                       IN  [index |-> i - 1, datetime |-> i, high |-> b.high,
                            low |-> b.low, close |-> b.close]]
          IN  /\ detector = [DefaultDetector EXCEPT !.include_round_numbers = rn]
              /\ threads = <<NewThread("sr", d, detector)>>
    /\ df = <<>>
    /\ dfCols = BaseCols
    /\ call = NoCall
    /\ trend = NoTrend
    /\ sr = NoSR
    /\ before = NoBefore
    /\ callsLeft = [trend |-> 0, sr |-> 0, method |-> 0]
    /\ args = NoArgs
    /\ ret = <<>>
    /\ dashboard = NoDashboard
    /\ db = NoDb

NextAtr == DetectSrLevelsStep

SpecAtr == InitAtr /\ [][NextAtr]_vars

\* the greatest of high - low, |high - previous close| and |low - previous
\* close| of row i > 1
C23_TrueRange(d, i) ==
    LET c == {d[i].high - d[i].low, Abs(d[i].high - d[i - 1].close),
              Abs(d[i].low - d[i - 1].close)}
    IN  CHOOSE m \in c : \A x \in c : x <= m

\* the arithmetic mean of that value over the last 14 bars
C23_Mean(d) ==
    LET total[k \in 0..14] ==
            IF k = 0 THEN 0 ELSE total[k - 1] + C23_TrueRange(d, Len(d) - 14 + k)
    IN  Norm(total[14], 14)

\* C23: on a series of at least 50 bars with high >= low the volatility a
\* detect_sr_levels call works with is the mean over the last 14 bars of
\* max(high - low, |high - previous close|, |low - previous close|); it is
\* not negative and it is not the standard-deviation fallback.
C23_VolatilityIsAtr ==
    \A t \in DOMAIN threads :
        (/\ threads[t].kind = "sr" /\ threads[t].pc # "start"
         /\ Len(threads[t].df) >= 50
         /\ \A i \in 1..Len(threads[t].df) : threads[t].df[i].high >= threads[t].df[i].low)
            => /\ threads[t].loc.atr = C23_Mean(threads[t].df)
               /\ FLeq(F(0), threads[t].loc.atr)
               /\ ~threads[t].loc.fallback

\* C23 witness: a finished call on 50 bars whose last bar lies wholly above
\* the previous close, so that its true range is |low - previous close| or
\* more and the volatility exceeds the mean of high - low
C23_Witness ==
    \E t \in DOMAIN threads :
        LET d == threads[t].df
        IN  /\ threads[t].kind = "sr" /\ threads[t].pc = "done" /\ Len(d) = 50
            /\ d[50].low > d[49].close
            /\ FLess(Norm(SumTrueRange(d, 37, 50) - TrueRange(d, 50)
                           + d[50].high - d[50].low, 14),
                     threads[t].loc.atr)
            /\ ~threads[t].loc.fallback


(***************************************************************************)
(* cluster_levels on candidates of equal price                             *)
(***************************************************************************)
\* one to four raw extrema at the prices 1000 and 1001, whose sums need
\* more bits than the significand has, as sums of prices such as 0.1 or
\* 100.1 do in float64; atr 0 (a flat last 14 bars) or 1
InitEqualPrices ==
    /\ \E n \in 1..4, atr \in {F(0), F(1)} :
          \E prices \in [1..n -> {1000, 1001}] :
              args = [NoArgs EXCEPT !.levels = Extrema(prices), !.atr = atr]
    /\ df = <<>>
    /\ dfCols = BaseCols
    /\ detector = DefaultDetector
    /\ call = NoCall
    /\ trend = NoTrend
    /\ sr = NoSR
    /\ before = NoBefore
    /\ callsLeft = [trend |-> 0, sr |-> 0, method |-> 1]
    /\ ret = <<>>
    /\ dashboard = NoDashboard
    /\ db = NoDb
    /\ threads = <<>>

NextEqualPrices == ClusterLevelsCall

SpecEqualPrices == InitEqualPrices /\ [][NextEqualPrices]_vars

\* the number of candidates in the first c clusters of the list out
C26_Covered(out, c) ==
    LET total[k \in 0..c] == IF k = 0 THEN 0 ELSE total[k - 1] + out[k].touches
    IN  total[c]

\* C26: for a non-empty candidate list and atr >= 0 the emitted clusters
\* partition the input: their touches sum to the number of candidates, no
\* cluster ends between two candidates of equal price, and the cluster
\* prices are strictly ascending.
C26_ClustersPartitionInput ==
    \A i \in 1..Len(ret) :
        (ret[i].op = "cluster_levels" /\ args.levels # <<>> /\ FLeq(F(0), args.atr))
            => LET asc == C21_Ascending(args.levels)
                   out == ret[i].out
               IN  /\ C26_Covered(out, Len(out)) = Len(asc)
                   /\ \A c \in 1..(Len(out) - 1) :
                         /\ asc[C26_Covered(out, c)].price
                              # asc[C26_Covered(out, c) + 1].price
                         /\ FLess(out[c].price, out[c + 1].price)


(***************************************************************************)
(* Levels found in a DataFrame fresh from the database                     *)
(***************************************************************************)
\* a table of 50 or 51 rows with dips at the event offsets; the caller
\* fetches a DataFrame from it, or builds one itself with rows numbered from
\* 0, and passes it to a detector that looks back over 50 bars
InitFetched ==
    /\ \E L \in {MIN_SR_BARS, MIN_SR_BARS + 1},
          ev \in [EventOffsets -> {BaseBar, [high |-> 21, low |-> 10, close |-> 20]}],
          fetched \in BOOLEAN :
          /\ args = [NoArgs EXCEPT !.limits = {5},
                                   !.rows = IF fetched THEN SRSeries(L, ev, 21) ELSE <<>>]
          /\ df = IF fetched THEN <<>> ELSE SRSeries(L, ev, 21)
    /\ \E mt \in MinTouches, rn \in BOOLEAN :
          detector = [DefaultDetector EXCEPT !.lookback_bars = MIN_SR_BARS,
                                            !.min_touches = mt,
                                            !.include_round_numbers = rn]
    /\ dfCols = BaseCols
    /\ call = NoCall
    /\ trend = NoTrend
    /\ sr = NoSR
    /\ before = NoBefore
    /\ callsLeft = [trend |-> 0, sr |-> 1, method |-> 1]
    /\ ret = <<>>
    /\ dashboard = NoDashboard
    /\ db = NoDb
    /\ threads = <<>>

NextFetched == FetchPriceData \/ DetectSrLevels

SpecFetched == InitFetched /\ [][NextFetched]_vars

\* C27: on a series sorted ascending by timestamp, whether its rows are
\* numbered from 0 or carry the labels fetch_price_data leaves them with,
\* every level detect_sr_levels returns has first_seen <= last_seen.
C27_FirstSeenBeforeLastSeen ==
    (SRCalled /\ StrictlyIncreasingTs(call.df0))
        => \A l \in Elems(sr.support) \cup Elems(sr.resistance) :
               l.first_seen <= l.last_seen


(***************************************************************************)
(* enhanced_dashboard: /api/daily-update and /api/intraday-update          *)
(***************************************************************************)
\* how many POST requests arrive in all
MaxRequests == 3

\* a POST request for one of the two routes arrives; the server handles it
\* on a thread of its own
RequestArrives ==
    \E route \in {"/api/daily-update", "/api/intraday-update"} :
        /\ Len(dashboard.requests) < MaxRequests
        /\ dashboard' = [dashboard EXCEPT
                            !.requests = Append(@, [route |-> route, pc |-> "check",
                                                    status |-> "none"])]
        /\ UNCHANGED <<df, dfCols, detector, call, trend, sr, before, callsLeft, args,
                       ret, threads, db>>

\* the next step of start_daily_update / start_intraday_update on the thread
\* of request r: the test of update_running, the assignment of True, the
\* start of the updater thread with the answer 'started'
StartUpdateStep ==
    \E r \in DOMAIN dashboard.requests :
        LET req == dashboard.requests[r]
        IN  /\ req.pc # "done"
            /\ dashboard' =
                  CASE req.pc = "check" ->
                         IF dashboard.update_running
                         THEN [dashboard EXCEPT !.requests[r].pc = "done",
                                                !.requests[r].status = "already_running"]
                         ELSE [dashboard EXCEPT !.requests[r].pc = "set"]
                    [] req.pc = "set" ->
                         [dashboard EXCEPT !.update_running = TRUE,
                                           !.requests[r].pc = "start"]
                    [] req.pc = "start" ->
                         [dashboard EXCEPT
                             !.updaters = Append(@, [route |-> req.route, pc |-> "running"]),
                             !.requests[r].pc = "done",
                             !.requests[r].status = "started"]
            /\ UNCHANGED <<df, dfCols, detector, call, trend, sr, before, callsLeft,
                           args, ret, threads, db>>

\* run_update / run_intraday_update: the updater thread comes to its end,
\* normally or by an exception, and its finally clause clears the flag
RunUpdateEnds ==
    \E u \in DOMAIN dashboard.updaters :
        /\ dashboard.updaters[u].pc = "running"
        /\ dashboard' = [dashboard EXCEPT !.update_running = FALSE,
                                          !.updaters[u].pc = "finished"]
        /\ UNCHANGED <<df, dfCols, detector, call, trend, sr, before, callsLeft, args,
                       ret, threads, db>>

InitDashboard ==
    /\ dashboard = NoDashboard
    /\ db = NoDb
    /\ df = <<>>
    /\ dfCols = BaseCols
    /\ detector = DefaultDetector
    /\ call = NoCall
    /\ trend = NoTrend
    /\ sr = NoSR
    /\ before = NoBefore
    /\ callsLeft = [trend |-> 0, sr |-> 0, method |-> 0]
    /\ args = NoArgs
    /\ ret = <<>>
    /\ threads = <<>>

NextDashboard == RequestArrives \/ StartUpdateStep \/ RunUpdateEnds

SpecDashboard == InitDashboard /\ [][NextDashboard]_vars

\* the updater threads running, and the requests that found update_running
\* false and have not started their thread yet
C29_Running == {u \in DOMAIN dashboard.updaters : dashboard.updaters[u].pc = "running"}

C29_Passed ==
    {r \in DOMAIN dashboard.requests : dashboard.requests[r].pc \in {"set", "start"}}

\* C29: under any interleaving of POST requests to the two routes at most
\* one updater thread is running at any time, and two requests never both
\* pass the update_running test: a request passes it only while no updater
\* is running and no other request has passed it and is about to start one.
C29_AtMostOneUpdater ==
    Cardinality(C29_Running) + Cardinality(C29_Passed) <= 1


(***************************************************************************)
(* SimpleTrendDetector.update_missing_trends                               *)
(***************************************************************************)
\* A row of dhanhq.price_data: security_id, interval_minutes and datetime
\* are its key (no two rows share all three), simple_trend is "NULL" or a
\* label, simple_trend_strength is <<>> for NULL or <<strength>>.
HISTORY_LIMIT == 50

MIN_HISTORY_ROWS == 20

SameKey(r, security_id, interval_minutes) ==
    r.security_id = security_id /\ r.interval_minutes = interval_minutes

\* lines 73-82: the datetimes of the rows of the key whose simple_trend IS
\* NULL, ORDER BY datetime
MissingDates(table, security_id, interval_minutes) ==
    LET S == {table[i].datetime : i \in {j \in DOMAIN table :
                  /\ SameKey(table[j], security_id, interval_minutes)
                  /\ table[j].simple_trend = "NULL"}}
    IN  [k \in 1..Cardinality(S) |->
            CHOOSE t \in S : Cardinality({u \in S : u < t}) = k - 1]

\* lines 90-100: the rows of the key with datetime <= target_date, ORDER BY
\* datetime DESC LIMIT 50
HistoryRows(table, security_id, interval_minutes, target_date) ==
    LET S == {i \in DOMAIN table :
                  /\ SameKey(table[i], security_id, interval_minutes)
                  /\ table[i].datetime <= target_date}
    IN  [k \in 1..MinI(HISTORY_LIMIT, Cardinality(S)) |->
            LET i == CHOOSE i \in S :
                         Cardinality({j \in S :
                             table[j].datetime > table[i].datetime}) = k - 1
            IN  [index |-> k - 1, datetime |-> table[i].datetime,
                 close |-> table[i].close]]

\* mutant: the UPDATE statement without its interval_minutes condition
UpdateTrendAllIntervals(table, security_id, interval_minutes, target_date, t) ==
    [i \in DOMAIN table |->
        IF table[i].security_id = security_id /\ table[i].datetime = target_date
        THEN [table[i] EXCEPT !.simple_trend = t.label,
                              !.simple_trend_strength = <<t.strength>>]
        ELSE table[i]]

\* lines 104-110 and 120-127: UPDATE ... SET simple_trend, simple_trend_strength
\* WHERE security_id, interval_minutes and datetime are the given ones
UpdateTrend(table, security_id, interval_minutes, target_date, t) ==
    [i \in DOMAIN table |->
        IF SameKey(table[i], security_id, interval_minutes)
           /\ table[i].datetime = target_date
        THEN [table[i] EXCEPT !.simple_trend = t.label,
                              !.simple_trend_strength = <<t.strength>>]
        ELSE table[i]]

\* cur.rowcount of that UPDATE
RowCount(table, security_id, interval_minutes, target_date) ==
    Cardinality({i \in DOMAIN table :
                    /\ SameKey(table[i], security_id, interval_minutes)
                    /\ table[i].datetime = target_date})

\* lines 88-134: the loop over missing_dates from position k on; gives the
\* table and updated_count at its end
RECURSIVE UpdateLoop(_, _, _, _, _, _)
UpdateLoop(table, security_id, interval_minutes, missing_dates, k, updated_count) ==
    IF k > Len(missing_dates) THEN [table |-> table, updated_count |-> updated_count]
    ELSE LET target_date == missing_dates[k]
             rows == HistoryRows(table, security_id, interval_minutes, target_date)
             t == IF Len(rows) < MIN_HISTORY_ROWS
                  THEN [label |-> "NEUTRAL", strength |-> F(0)]
                  ELSE TrendOf(SortValuesByDatetime(rows))
         IN  UpdateLoop(UpdateTrend(table, security_id, interval_minutes, target_date, t),
                        security_id, interval_minutes, missing_dates, k + 1,
                        updated_count
                          + RowCount(table, security_id, interval_minutes, target_date))

\* one call of update_missing_trends('15380', interval) as
\* start_trend_calculation makes it, committed at its end
UpdateMissingTrends ==
    \E interval \in {15, 60} :
        LET end == UpdateLoop(db.table, "15380", interval,
                              MissingDates(db.table, "15380", interval), 1, 0)
        IN  /\ callsLeft.method > 0 /\ db.table # <<>>
            /\ callsLeft' = [callsLeft EXCEPT !.method = @ - 1]
            /\ db' = [table |-> end.table, table0 |-> db.table,
                      call |-> [security_id |-> "15380", interval_minutes |-> interval,
                                outcome |-> "returned",
                                updated_count |-> end.updated_count]]
            /\ UNCHANGED <<df, dfCols, detector, call, trend, sr, before, args, ret,
                           threads, dashboard>>

\* how many 15-minute rows of security 15380 the table holds beyond 19
ExtraDbRows == 3

\* Tables of 19 to 19 + ExtraDbRows 15-minute rows of security 15380 with
\* datetimes 1, 2, ...: close 100 up to datetime 19 and c after it; the rows
\* in `missing` have no trend yet, the others carry UPTREND / 5.  Each table
\* also holds a 60-minute row of the security and a 15-minute row of
\* security 1333, both at datetime 1, whose trend is NULL when `others` is.
InitDb ==
    \E n \in MIN_HISTORY_ROWS - 1..MIN_HISTORY_ROWS - 1 + ExtraDbRows, c \in {99, 101},
       missing \in SUBSET {1, MIN_HISTORY_ROWS - 1, MIN_HISTORY_ROWS,
                           MIN_HISTORY_ROWS + 1},
       others \in BOOLEAN :
        LET Row(sec, iv, dt, isnull) ==
                [security_id |-> sec, interval_minutes |-> iv, datetime |-> dt,
                 close |-> IF dt < MIN_HISTORY_ROWS THEN 100 ELSE c,
                 simple_trend |-> IF isnull THEN "NULL" ELSE "UPTREND",
                 simple_trend_strength |-> IF isnull THEN <<>> ELSE <<F(5)>>]
        IN  /\ db = [NoDb EXCEPT
                       !.table = <<Row("15380", 60, 1, others), Row("1333", 15, 1, others)>>
                                 \o [dt \in 1..n |-> Row("15380", 15, dt, dt \in missing)]]
            /\ dashboard = NoDashboard
            /\ df = <<>>
            /\ dfCols = BaseCols
            /\ detector = DefaultDetector
            /\ call = NoCall
            /\ trend = NoTrend
            /\ sr = NoSR
            /\ before = NoBefore
            /\ callsLeft = [trend |-> 0, sr |-> 0, method |-> 2]
            /\ args = NoArgs
            /\ ret = <<>>
            /\ threads = <<>>

NextDb == UpdateMissingTrends

SpecDb == InitDb /\ [][NextDb]_vars

\* the rows the last call was about, and how many rows of history up to
\* row i its table held at the start
C30_OfCall(r) == SameKey(r, db.call.security_id, db.call.interval_minutes)

C30_HistoryCount(i) ==
    Cardinality({j \in DOMAIN db.table0 :
                    /\ db.table0[j].security_id = db.table0[i].security_id
                    /\ db.table0[j].interval_minutes = db.table0[i].interval_minutes
                    /\ db.table0[j].datetime <= db.table0[i].datetime})

\* C30: after a call of update_missing_trends(security_id, interval) that
\* returned, the table has the rows it had at the start; every row of that
\* security and interval whose simple_trend was NULL now has a trend and a
\* strength, NEUTRAL and 0 where fewer than 20 rows of history up to it
\* exist; every other row is as it was; and no row of that security and
\* interval has a NULL trend.
C30_WritesExactlyTheMissing ==
    db.call.outcome = "returned" =>
        /\ DOMAIN db.table = DOMAIN db.table0
        /\ \A i \in DOMAIN db.table0 :
              LET old == db.table0[i]
                  new == db.table[i]
              IN  IF C30_OfCall(old) /\ old.simple_trend = "NULL"
                  THEN /\ new = [old EXCEPT !.simple_trend = new.simple_trend,
                                            !.simple_trend_strength =
                                                new.simple_trend_strength]
                       /\ new.simple_trend \in TrendLabels
                       /\ Len(new.simple_trend_strength) = 1
                       /\ C30_HistoryCount(i) < 20 =>
                              /\ new.simple_trend = "NEUTRAL"
                              /\ new.simple_trend_strength = <<F(0)>>
                  ELSE new = old
        /\ \A i \in DOMAIN db.table :
              C30_OfCall(db.table[i]) => db.table[i].simple_trend # "NULL"

\* a call for the 15-minute rows wrote NEUTRAL / 0 on a row with 19 rows of
\* history and another label on a row with 20, left a row that had a trend
\* and the NULL rows of the other interval and the other security alone
C30_Witness ==
    /\ db.call.outcome = "returned" /\ db.call.interval_minutes = 15
    /\ db.call.updated_count >= 2
    /\ \E i, j, k \in DOMAIN db.table :
          /\ C30_OfCall(db.table0[i]) /\ db.table0[i].simple_trend = "NULL"
          /\ C30_HistoryCount(i) = 19 /\ db.table[i].simple_trend = "NEUTRAL"
          /\ C30_OfCall(db.table0[j]) /\ db.table0[j].simple_trend = "NULL"
          /\ C30_HistoryCount(j) = 20 /\ db.table[j].simple_trend # "NEUTRAL"
          /\ C30_OfCall(db.table0[k]) /\ db.table0[k].simple_trend = "UPTREND"
          /\ db.table[k] = db.table0[k]
    /\ \E i \in DOMAIN db.table :
          /\ ~C30_OfCall(db.table[i]) /\ db.table[i].simple_trend = "NULL"

=============================================================================
